---- MODULE Spec2Model ----
(***************************************************************************)
(* Resource lifecycle of cloudknot's Vpc, SecurityGroup and IamRole        *)
(* (cloudknot/aws/ec2.py, cloudknot/aws/iam.py).  Every constructor and    *)
(* every clobber() is one synchronous, blocking call, so each is one       *)
(* atomic action: it reads the remote state (EC2, IAM, Batch), changes it, *)
(* changes the local registry (cloudknot.config) and either binds an       *)
(* object or raises.  `last` records what the last call was given, which   *)
(* remote calls it issued and how it ended.                                *)
(***************************************************************************)
EXTENDS Integers, Sequences, FiniteSets, TLC

\* ----------------------------------------------------------------- bounds
\* Number of Python objects (controller instances) a run may hold.
MaxInst == 2
\* Availability zones of the region (describe_availability_zones).
NumZones == 2
\* The largest region the subnet layout is computed for.
MaxZones == 8

Slots == 1..MaxInst

\* ------------------------------------------------------------- value sets
\* Python's None, and every "absent" attribute.
None == "None"

\* Identifiers the remote hands out, in the order it hands them out.
VpcSeq == <<"vpc-1", "vpc-2">>
SgSeq == <<"sg-1", "sg-2">>
VpcIds == {VpcSeq[k] : k \in DOMAIN VpcSeq}
SgIds == {SgSeq[k] : k \in DOMAIN SgSeq}
RoleNames == {"r1"}
CeArn == "arn:ce-1"

SyntheticName == "cloudknot-acquired-pre-existing-vpc"
DefaultCidr == "10.0.0.0/16"
TinyCidr == "10.0.0.0/32"
\* The IPv4 networks a caller may name, as ipaddress.IPv4Network reads
\* them: the network address as an integer, and the prefix length.
Networks == [c \in {DefaultCidr, TinyCidr, "10.0.0.0/28", "10.0.0.0/30", "10.1.0.0/24"} |->
                IF c = "10.1.0.0/24" THEN [base |-> 10 * 2^24 + 2^16, prefix |-> 24]
                ELSE [base |-> 10 * 2^24, prefix |-> IF c = DefaultCidr THEN 16 ELSE IF c = "10.0.0.0/28" THEN 28 ELSE IF c = "10.0.0.0/30" THEN 30 ELSE 32]]
DefaultSgDescription == "This security group was automatically generated by cloudknot."
DefaultRoleDescription == "This role was generated by cloudknot"

\* Inputs the callers are drawn from.
NameInputs == {None, "a"}
CidrInputs == {None, DefaultCidr, TinyCidr, "not-a-network"}
RegionCidrs == {None} \cup DOMAIN Networks
TenancyInputs == {None, "dedicated", "shared"}

VARIABLES account, vpcs, sgs, ec2s, ces, roles, profiles, config, inst, failed, last, run

remote == <<vpcs, sgs, ec2s, ces, roles, profiles>>
vars == <<account, vpcs, sgs, ec2s, ces, roles, profiles, config, inst, failed, last, run>>

\* ---------------------------------------------------------------- helpers
Min(S) == CHOOSE x \in S : \A y \in S : x <= y

\* A tuple of strings in some fixed order (the order Python gives a set).
RECURSIVE SetToSeq(_)
SetToSeq(S) == IF S = {} THEN <<>> ELSE LET x == CHOOSE y \in S : TRUE IN <<x>> \o SetToSeq(S \ {x})

Call(c, r) == [c |-> c, r |-> r]

RECURSIVE CallEach(_, _, _)
CallEach(c, n, r) == IF n = 0 THEN <<>> ELSE <<Call(c, r)>> \o CallEach(c, n - 1, r)

\* The attempts the total time of a retry leaves room for.
MaxAttempts == 2

\* tenacity.Retrying(retry=<r is one of retry_on>, stop=stop_after_delay)
\* .call(c), every attempt answering r: c is attempted again while its
\* answer is one the retry names, until the time is spent.
RetryCall_Once(c, r, retry_on) == <<Call(c, r)>>

RetryCall_Any(c, r, retry_on) == IF r # "ok" THEN CallEach(c, MaxAttempts, r) ELSE <<Call(c, r)>>

RetryCall(c, r, retry_on) == IF r \in retry_on THEN CallEach(c, MaxAttempts, r) ELSE <<Call(c, r)>>

\* The first identifier of a pool the remote has not used yet (None: the
\* account's limit is reached and the create call fails).  VpcIds and SgIds
\* are defined below the pools.
FreshVpc == IF Cardinality({v \in VpcIds : vpcs[v].st # "absent"}) < account.vpcLimit THEN VpcSeq[Min({k \in DOMAIN VpcSeq : vpcs[VpcSeq[k]].st = "absent"})] ELSE None

FreshSg == IF Cardinality({g \in SgIds : sgs[g].st # "absent"}) < account.sgLimit THEN SgSeq[Min({k \in DOMAIN SgSeq : sgs[SgSeq[k]].st = "absent"})] ELSE None

ArnOf(name) == IF name = "r1" THEN "arn:aws:iam::role/r1" ELSE "arn:aws:iam::role/other"

\* ------------------------------------------------------- remote resources
AbsentVpc == [st |-> "absent", name |-> None, owner |-> None, cidr |-> None, tenancy |-> None, subnets |-> {}, blocks |-> <<>>, backfilled |-> FALSE]

AbsentSg == [st |-> "absent", name |-> None, vpc |-> None, desc |-> None, ingress |-> {}, owner |-> None, by |-> None]

AbsentRole == [st |-> "absent", desc |-> None, service |-> None, policies |-> {}]

NoCe == [st |-> "none", sg |-> None, role |-> None]

NoInstance == [st |-> "none", vpc |-> None, sg |-> None]

\* ---------------------------------------------------------- local objects
BlankInst == [kind |-> None, st |-> "none", id |-> None, name |-> None, pre |-> FALSE, clobbered |-> FALSE, cidr |-> None, tenancy |-> None, subnet_ids |-> {}, vpc |-> 0, vpc_id |-> None, desc |-> None, service |-> None, policies |-> {}, arn |-> None, section |-> None]

\* NamedObject.__init__: the name, and clobbered = False.
NamedObject(kind, name) == [BlankInst EXCEPT !.kind = kind, !.st = "live", !.name = name, !.clobbered = FALSE]

\* ----------------------------------------------------------- the registry
Sections == {"vpc", "security-groups", "roles"}

add_resource(cfg, section, id, name) == [cfg EXCEPT ![section] = [k \in (DOMAIN @) \cup {id} |-> IF k = id THEN name ELSE @[k]]]

remove_resource(cfg, section, id) == [cfg EXCEPT ![section] = [k \in (DOMAIN @) \ {id} |-> @[k]]]

\* ------------------------------------------------------- the call record
\* The optional arguments of the constructors at their defaults.
NoArgs == [ipv4_cidr |-> None, instance_tenancy |-> None, vpc |-> 0, description |-> None, service |-> None, policies |-> [str |-> TRUE, names |-> <<>>], add_instance_profile |-> "False"]

\* No call in progress: run is the position of the call being executed,
\* which only the step-by-step specification of the loops moves.
Idle == [pc |-> "idle", op |-> None, todo |-> <<>>, ans |-> None, clock |-> 0, attempt |-> 1, page |-> 1, exc |-> None]

InitLast == [op |-> "init", kind |-> None, inst |-> 0, exc |-> None, rid |-> {}, idGiven |-> None, nameGiven |-> None, params |-> FALSE, args |-> NoArgs, lookup |-> "none", calls |-> <<>>]

EnvLast == [InitLast EXCEPT !.op = "env"]

\* A run is one script against one account: it holds the boto3 client of one
\* service beside cloudknot (boto3.client('iam') in test_IamRole,
\* boto3.client('ec2') in test_SecurityGroup), and the account lets it make
\* so many VPCs and security groups.
Accounts == {[client |-> "ec2", vpcLimit |-> 1, sgLimit |-> 1, zones |-> NumZones], [client |-> "ec2", vpcLimit |-> 2, sgLimit |-> 0, zones |-> NumZones], [client |-> "iam", vpcLimit |-> 0, sgLimit |-> 0, zones |-> NumZones]}

\* Accounts in regions of 1 to MaxZones availability zones.
RegionAccounts == {[client |-> "ec2", vpcLimit |-> 2, sgLimit |-> 0, zones |-> n] : n \in 1..MaxZones}

InitIn(accounts) ==
    /\ account \in accounts
    /\ vpcs = [v \in VpcIds |-> AbsentVpc]
    /\ sgs = [g \in SgIds |-> AbsentSg]
    /\ ec2s = NoInstance
    /\ ces = NoCe
    /\ roles = [n \in RoleNames |-> AbsentRole]
    /\ profiles = [n \in RoleNames |-> "absent"]
    /\ config = [s \in Sections |-> <<>>]
    /\ inst = [i \in Slots |-> BlankInst]
    /\ failed = [i \in Slots |-> "never"]
    /\ last = InitLast
    /\ run = Idle

Init == InitIn(Accounts)

InitRegion == InitIn(RegionAccounts)

\* ------------------------------------------- the remote outside cloudknot
\* ec2.create_vpc(CidrBlock='10.0.0.0/16') issued with boto3 directly: the
\* VPC has no Name tag and no subnets.
Boto3CreateVpc ==
    /\ account.client = "ec2"
    /\ FreshVpc # None
    /\ vpcs' = [vpcs EXCEPT ![FreshVpc] = [AbsentVpc EXCEPT !.st = "present", !.cidr = DefaultCidr, !.tenancy = "default"]]
    /\ last' = EnvLast
    /\ UNCHANGED <<run, account, sgs, ec2s, ces, roles, profiles, config, inst, failed>>

\* ------------------------------------------------------------------- Vpc
ValidCidr(c) == c \in DOMAIN Networks

PrefixLen(c) == Networks[c].prefix

NumAddresses(c) == 2 ^ (32 - PrefixLen(c))

\* floor(log2(n)) for n >= 1.
RECURSIVE CeilLog2_Floor(_)
CeilLog2_Floor(n) == IF n <= 1 THEN 0 ELSE 1 + CeilLog2_Floor(n \div 2)

\* ceil(log2(n)) for n >= 1.
RECURSIVE CeilLog2(_)
CeilLog2(n) == IF n <= 1 THEN 0 ELSE 1 + CeilLog2((n + 1) \div 2)

\* IPv4Network.subnets(prefixlen_diff): the 2^diff networks of prefix
\* length prefix + diff that tile the block, in address order.
subnets_SameBase(cidr, prefixlen_diff) == [k \in 1..(2 ^ prefixlen_diff) |-> [base |-> Networks[cidr].base, prefix |-> PrefixLen(cidr) + prefixlen_diff]]

subnets(cidr, prefixlen_diff) == [k \in 1..(2 ^ prefixlen_diff) |-> [base |-> Networks[cidr].base + (k - 1) * 2 ^ (32 - PrefixLen(cidr) - prefixlen_diff), prefix |-> PrefixLen(cidr) + prefixlen_diff]]

\* seq[:n]
Truncate(seq, n) == SubSeq(seq, 1, IF n < Len(seq) THEN n ELSE Len(seq))

\* Vpc._add_subnets: the CIDR blocks of the subnets, one for each pair of
\* zip(zones, subnet_ipv4_cidrs).
SubnetBlocks(cidr, zones) == Truncate(subnets(cidr, CeilLog2(zones)), zones)

SgsOfVpc(v) == {g \in SgIds : sgs[g].st = "present" /\ sgs[g].vpc = v}

\* Vpc._exists_already: the possible answers of the resolver.  Each answer
\* carries the remote VPCs as the resolver leaves them (it tags a VPC that
\* has no Name tag).
VpcFound(v, calls) ==
    LET untagged == vpcs[v].name = None
        nm == IF untagged THEN SyntheticName ELSE vpcs[v].name
        after == IF untagged THEN [vpcs EXCEPT ![v].name = SyntheticName, ![v].owner = "cloudknot", ![v].backfilled = TRUE] ELSE vpcs
        cs == calls \o (IF untagged THEN <<Call("create_tags", "ok")>> ELSE <<>>) \o <<Call("describe_subnets", "ok")>>
    IN [exc |-> None, exists |-> TRUE, name |-> nm, ipv4_cidr |-> vpcs[v].cidr, instance_tenancy |-> vpcs[v].tenancy, vpc_id |-> v, subnet_ids |-> vpcs[v].subnets, vpcs |-> after, calls |-> cs]

VpcNotFound(calls) == [exc |-> None, exists |-> FALSE, name |-> None, ipv4_cidr |-> None, instance_tenancy |-> None, vpc_id |-> None, subnet_ids |-> {}, vpcs |-> vpcs, calls |-> calls]

VpcLookupError(calls) == [VpcNotFound(calls) EXCEPT !.exc = "ClientError"]

Vpc_exists_already(vpc_id, name, fault) ==
    IF vpc_id # None
    THEN IF fault = "lookup" THEN {VpcLookupError(<<Call("describe_vpcs", "UnauthorizedOperation")>>)}
         ELSE IF vpc_id \in VpcIds /\ vpcs[vpc_id].st = "present" THEN {VpcFound(vpc_id, <<Call("describe_vpcs", "ok")>>)}
         ELSE {VpcNotFound(<<Call("describe_vpcs", "InvalidVpcID.NotFound")>>)}
    ELSE LET tagged == {v \in VpcIds : vpcs[v].st = "present" /\ vpcs[v].name = name}
         IN IF tagged = {} THEN {VpcNotFound(<<Call("describe_tags", "ok")>>)}
            ELSE {VpcFound(v, <<Call("describe_tags", "ok"), Call("describe_vpcs", "ok")>>) : v \in tagged}

\* What a call leaves behind: the exception (None: it returned), the
\* resource id the exception carries, the remote calls issued, the remote
\* and the registry afterwards, and the object bound on return.
Outcome(exc, rid, lookup, calls, v, cfg, obj) == [exc |-> exc, rid |-> rid, lookup |-> lookup, calls |-> calls, vpcs |-> v, config |-> cfg, obj |-> obj]

\* Vpc._create followed by Vpc._add_subnets, on an object already holding
\* its name, CIDR block and tenancy.
VpcCreate(obj, calls, fault) ==
    LET v == FreshVpc
        made == [vpcs EXCEPT ![v] = [AbsentVpc EXCEPT !.st = "present", !.cidr = obj.cidr, !.tenancy = obj.tenancy]]
        named == [made EXCEPT ![v].owner = "cloudknot", ![v].name = obj.name]
        cfg == add_resource(config, "vpc", v, obj.name)
        c1 == calls \o <<Call("create_vpc", "ok")>>
        c2 == c1 \o <<Call("wait_vpc_exists", "ok"), Call("wait_vpc_available", "ok"), Call("create_tags", "ok")>>
        c3 == c2 \o <<Call("describe_availability_zones", "ok")>>
        zones == account.zones
        diff == CeilLog2(zones)
        blocks == SubnetBlocks(obj.cidr, zones)
        withSubnets == [named EXCEPT ![v].subnets = DOMAIN blocks, ![v].blocks = blocks]
        c4 == c3 \o CallEach("create_subnet", Len(blocks), "ok")
    IN IF fault = "create" \/ v = None
       THEN Outcome("ClientError", {}, "missing", calls \o <<Call("create_vpc", IF v = None THEN "VpcLimitExceeded" ELSE "UnauthorizedOperation")>>, vpcs, config, BlankInst)
       ELSE IF fault = "wait"
       THEN Outcome("WaiterError", {}, "missing", c1 \o <<Call("wait_vpc_exists", "WaiterError")>>, made, config, BlankInst)
       ELSE IF NumAddresses(obj.cidr) < zones \/ PrefixLen(obj.cidr) + diff > 32
       THEN Outcome("ValueError", {}, "missing", c3, named, cfg, BlankInst)
       ELSE IF fault = "poll"
       THEN Outcome("RetryError", {}, "missing", c4 \o RetryCall("wait_subnet_available", "WaiterError", {"WaiterError"}), withSubnets, cfg, BlankInst)
       ELSE Outcome(None, {}, "missing", c4 \o <<Call("wait_subnet_available", "ok"), Call("create_tags", "ok")>>, withSubnets, cfg, [obj EXCEPT !.id = v, !.subnet_ids = DOMAIN blocks])

\* Vpc.__init__: "If user supplies vpc_id, then no other input is allowed".
VpcOverSpecified_IgnoresCidr(vpc_id, name, ipv4_cidr, instance_tenancy) == vpc_id # None /\ (name # None \/ instance_tenancy # None)

VpcOverSpecified(vpc_id, name, ipv4_cidr, instance_tenancy) == vpc_id # None /\ (name # None \/ ipv4_cidr # None \/ instance_tenancy # None)

\* Vpc.__init__: "If resource exists and user supplied an ipv4, abort".
VpcConflicts_CidrOnly(ipv4_cidr, instance_tenancy) == ipv4_cidr # None

VpcConflicts(ipv4_cidr, instance_tenancy) == ipv4_cidr # None \/ instance_tenancy # None

\* Vpc.__init__: the registry entry of an adopted VPC.
VpcAdoptRegistry_Skip(cfg, vpc_id, name) == cfg

VpcAdoptRegistry_Toggle(cfg, vpc_id, name) == IF vpc_id \in DOMAIN cfg["vpc"] THEN remove_resource(cfg, "vpc", vpc_id) ELSE add_resource(cfg, "vpc", vpc_id, name)

VpcAdoptRegistry(cfg, vpc_id, name) == add_resource(cfg, "vpc", vpc_id, name)

\* Vpc.__init__: the object bound when the resolver found the VPC.
VpcAdopted_NoSubnets(resource) == [NamedObject("vpc", resource.name) EXCEPT !.pre = TRUE, !.id = resource.vpc_id, !.cidr = resource.ipv4_cidr, !.tenancy = resource.instance_tenancy]

VpcAdopted(resource) == [NamedObject("vpc", resource.name) EXCEPT !.pre = TRUE, !.id = resource.vpc_id, !.cidr = resource.ipv4_cidr, !.tenancy = resource.instance_tenancy, !.subnet_ids = resource.subnet_ids]

\* Vpc.__init__: "if not (vpc_id or name)".
VpcUnderSpecified_Never(vpc_id, name) == FALSE

VpcUnderSpecified(vpc_id, name) == ~(vpc_id # None \/ name # None)

\* Vpc.__init__: a vpc_id was given and the resolver found nothing.
VpcMissingId_Never(vpc_id) == FALSE

VpcMissingId(vpc_id) == vpc_id # None

\* Vpc.__init__
VpcInitOutcomes(vpc_id, name, ipv4_cidr, instance_tenancy, fault) ==
    IF VpcUnderSpecified(vpc_id, name)
    THEN {Outcome("ValueError", {}, "none", <<>>, vpcs, config, BlankInst)}
    ELSE IF VpcOverSpecified(vpc_id, name, ipv4_cidr, instance_tenancy)
    THEN {Outcome("ValueError", {}, "none", <<>>, vpcs, config, BlankInst)}
    ELSE {
        IF resource.exc # None
        THEN Outcome(resource.exc, {}, "error", resource.calls, resource.vpcs, config, BlankInst)
        ELSE IF resource.exists
        THEN IF VpcConflicts(ipv4_cidr, instance_tenancy)
             THEN Outcome("ResourceExistsException", {resource.vpc_id}, "found", resource.calls, resource.vpcs, config, BlankInst)
             ELSE Outcome(None, {}, "found", resource.calls, resource.vpcs, VpcAdoptRegistry(config, resource.vpc_id, resource.name), VpcAdopted(resource))
        ELSE IF VpcMissingId(vpc_id)
        THEN Outcome("ResourceDoesNotExistException", {vpc_id}, "missing", resource.calls, resource.vpcs, config, BlankInst)
        ELSE IF ipv4_cidr # None /\ ~ValidCidr(ipv4_cidr)
        THEN Outcome("ValueError", {}, "missing", resource.calls, resource.vpcs, config, BlankInst)
        ELSE IF instance_tenancy # None /\ instance_tenancy \notin {"default", "dedicated"}
        THEN Outcome("ValueError", {}, "missing", resource.calls, resource.vpcs, config, BlankInst)
        ELSE VpcCreate([NamedObject("vpc", name) EXCEPT !.cidr = IF ipv4_cidr # None THEN ipv4_cidr ELSE DefaultCidr, !.tenancy = IF instance_tenancy # None THEN instance_tenancy ELSE "default"], resource.calls, fault)
        : resource \in Vpc_exists_already(vpc_id, name, fault)}

\* The argument lists Vpc() is called with: nothing, an id alone, an id with
\* something else, a name alone, a name with creation parameters.
VpcArgs ==
    {[vpc_id |-> None, name |-> None, ipv4_cidr |-> c, instance_tenancy |-> None, fault |-> "none"] : c \in {None, DefaultCidr}}
    \cup {[vpc_id |-> v, name |-> None, ipv4_cidr |-> None, instance_tenancy |-> None, fault |-> f] : v \in VpcIds, f \in {"none", "lookup"}}
    \cup {[vpc_id |-> "vpc-1", name |-> "a", ipv4_cidr |-> None, instance_tenancy |-> None, fault |-> "none"]}
    \cup {[vpc_id |-> "vpc-1", name |-> None, ipv4_cidr |-> DefaultCidr, instance_tenancy |-> None, fault |-> "none"]}
    \cup {[vpc_id |-> "vpc-1", name |-> None, ipv4_cidr |-> None, instance_tenancy |-> "dedicated", fault |-> "none"]}
    \cup {[vpc_id |-> None, name |-> SyntheticName, ipv4_cidr |-> c, instance_tenancy |-> None, fault |-> "none"] : c \in {None, DefaultCidr}}
    \cup {[vpc_id |-> None, name |-> "a", ipv4_cidr |-> c, instance_tenancy |-> None, fault |-> "none"] : c \in CidrInputs}
    \cup {[vpc_id |-> None, name |-> "a", ipv4_cidr |-> None, instance_tenancy |-> t, fault |-> "none"] : t \in TenancyInputs}
    \cup {[vpc_id |-> None, name |-> "a", ipv4_cidr |-> None, instance_tenancy |-> None, fault |-> f] : f \in {"create", "wait", "poll"}}

\* Objects are bound to the slots in order: the next call fills the first
\* slot that holds no object (a constructor that raised bound none).
NextSlot(i) == inst[i].st = "none" /\ \A j \in Slots : j < i => inst[j].st # "none"

ConstructVpcWith(i, arguments) ==
    /\ account.client = "ec2"
    /\ NextSlot(i)
    /\ \E a \in arguments :
        \E o \in VpcInitOutcomes(a.vpc_id, a.name, a.ipv4_cidr, a.instance_tenancy, a.fault) :
            /\ vpcs' = o.vpcs
            /\ config' = o.config
            /\ inst' = [inst EXCEPT ![i] = o.obj]
            /\ last' = [op |-> "construct", kind |-> "vpc", inst |-> i, exc |-> o.exc, rid |-> o.rid, idGiven |-> a.vpc_id, nameGiven |-> a.name, params |-> (a.ipv4_cidr # None \/ a.instance_tenancy # None), args |-> [NoArgs EXCEPT !.ipv4_cidr = a.ipv4_cidr, !.instance_tenancy = a.instance_tenancy], lookup |-> o.lookup, calls |-> o.calls]
    /\ UNCHANGED <<run, account, sgs, ec2s, ces, roles, profiles, failed>>

ConstructVpc(i) == ConstructVpcWith(i, VpcArgs)

\* Vpc(name='a', ipv4_cidr=c) for each network c.
RegionArgs == {[vpc_id |-> None, name |-> "a", ipv4_cidr |-> c, instance_tenancy |-> None, fault |-> "none"] : c \in RegionCidrs}

CreateVpcInRegion(i) == ConstructVpcWith(i, RegionArgs)

\* Vpc.clobber: the registry entry goes once delete_vpc has returned.
VpcRegistryAfter_Kept(cfg, v, deleted) == cfg

VpcRegistryAfter_Keep(cfg, v, deleted) == cfg

VpcRegistryAfter(cfg, v, deleted) == IF deleted THEN remove_resource(cfg, "vpc", v) ELSE cfg

\* Vpc.clobber.  The subnets are deleted in the order of subnet_ids; the
\* first delete that fails ends the loop.
DeleteSubnetCalls_None(n) == <<>>

\* for subnet_id in self.subnet_ids: EC2.delete_subnet(...), as far as it gets.
DeleteSubnetCalls(n) == CallEach("delete_subnet", n, "ok")

VpcClobberOutcome(o, fault) ==
    LET v == o.id
        gone == {z \in o.subnet_ids : z \notin vpcs[v].subnets}
        deleted == {z \in o.subnet_ids : \A g \in gone : z < g}
        afterSubnets == [vpcs EXCEPT ![v].subnets = @ \ deleted, ![v].blocks = [z \in (DOMAIN @) \ deleted |-> @[z]]]
        c1 == DeleteSubnetCalls(Cardinality(deleted))
        vpcCode == IF fault = "delete" THEN "UnauthorizedOperation"
                   ELSE IF vpcs[v].st # "present" THEN "InvalidVpcID.NotFound"
                   ELSE IF afterSubnets[v].subnets # {} \/ SgsOfVpc(v) # {} \/ (ec2s.st = "running" /\ ec2s.vpc = v) THEN "DependencyViolation"
                   ELSE "ok"
        afterVpc == [afterSubnets EXCEPT ![v] = [AbsentVpc EXCEPT !.st = "deleted"]]
    IN IF gone # {}
       THEN Outcome("ClientError", {}, "none", c1 \o <<Call("delete_subnet", "InvalidSubnetID.NotFound")>>, afterSubnets, VpcRegistryAfter(config, v, FALSE), o)
       ELSE IF vpcCode = "ok"
       THEN Outcome(None, {}, "none", c1 \o <<Call("delete_vpc", "ok")>>, afterVpc, VpcRegistryAfter(config, v, TRUE), o)
       ELSE IF vpcCode = "DependencyViolation"
       THEN Outcome("CannotDeleteResourceException", SgsOfVpc(v), "none", c1 \o <<Call("delete_vpc", vpcCode), Call("describe_security_groups", "ok")>>, afterSubnets, VpcRegistryAfter(config, v, FALSE), o)
       ELSE Outcome("ClientError", {}, "none", c1 \o <<Call("delete_vpc", vpcCode)>>, afterSubnets, VpcRegistryAfter(config, v, FALSE), o)

\* The object after clobber(): st is its place in the lifecycle, "gone" once
\* a clobber() has returned; the clobbered flag is only what the code sets.
Returned(o) == [o.obj EXCEPT !.st = IF o.exc = None THEN "gone" ELSE @]

\* How the clobber() calls on an object have failed so far: never, only
\* with CannotDeleteResourceException ("dependents"), or otherwise.
Refused(before, exc) == IF exc = None THEN before ELSE IF exc = "CannotDeleteResourceException" /\ before # "other" THEN "dependents" ELSE "other"

ClobberLast(i, o) == [op |-> "clobber", kind |-> inst[i].kind, inst |-> i, exc |-> o.exc, rid |-> o.rid, idGiven |-> None, nameGiven |-> None, params |-> FALSE, args |-> NoArgs, lookup |-> "none", calls |-> o.calls]

ClobberVpc(i) ==
    /\ account.client = "ec2"
    /\ inst[i].st \in {"live", "gone"}
    /\ inst[i].kind = "vpc"
    /\ \E fault \in {"none", "delete"} :
        LET o == VpcClobberOutcome(inst[i], fault)
        IN /\ vpcs' = o.vpcs
           /\ config' = o.config
           /\ inst' = [inst EXCEPT ![i] = Returned(o)]
           /\ failed' = [failed EXCEPT ![i] = Refused(@, o.exc)]
           /\ last' = ClobberLast(i, o)
    /\ UNCHANGED <<run, account, sgs, ec2s, ces, roles, profiles>>

\* -------------------------------------------------------- SecurityGroup
\* ec2.create_security_group(GroupName=name, Description=description,
\* VpcId=vpc_id) issued with boto3 directly.
Boto3CreateSecurityGroup(v) ==
    /\ account.client = "ec2"
    /\ FreshSg # None
    /\ vpcs[v].st = "present"
    /\ \A g \in SgsOfVpc(v) : sgs[g].name # "a"
    /\ sgs' = [sgs EXCEPT ![FreshSg] = [AbsentSg EXCEPT !.st = "present", !.name = "a", !.vpc = v, !.desc = "d", !.by = "boto3"]]
    /\ last' = EnvLast
    /\ UNCHANGED <<run, account, vpcs, ec2s, ces, roles, profiles, config, inst, failed>>

\* An EC2 instance launched into a security group, outside cloudknot.
RunInstance(g) ==
    /\ account.client = "ec2"
    /\ ec2s.st = "none"
    /\ sgs[g].st = "present"
    /\ ec2s' = [st |-> "running", vpc |-> sgs[g].vpc, sg |-> g]
    /\ last' = EnvLast
    /\ UNCHANGED <<run, account, vpcs, sgs, ces, roles, profiles, config, inst, failed>>

\* The names the EC2 client's exceptions object resolves; any other name
\* read from it raises AttributeError.
EC2_exceptions == {"ClientError"}

SgOutcome(exc, rid, lookup, calls, g, e, c, cfg, obj) == [exc |-> exc, rid |-> rid, lookup |-> lookup, calls |-> calls, sgs |-> g, ec2s |-> e, ces |-> c, config |-> cfg, obj |-> obj]

SgNotFound(exc, calls) == [exc |-> exc, exists |-> FALSE, name |-> None, vpc_id |-> None, description |-> None, security_group_id |-> None, calls |-> calls]

SgFound(g, calls) == [exc |-> None, exists |-> TRUE, name |-> sgs[g].name, vpc_id |-> sgs[g].vpc, description |-> sgs[g].desc, security_group_id |-> g, calls |-> calls]

\* SecurityGroup._exists_already: the error codes that mean "no such group".
SgNotFoundCodes_NotFoundOnly == {"InvalidGroup.NotFound"}

SgNotFoundCodes == {"InvalidGroup.NotFound", "InvalidGroupId.Malformed"}

\* What describe_security_groups(GroupIds=[id]) answers.
DescribeSgCode(security_group_id, fault) == IF fault = "lookup" THEN "UnauthorizedOperation" ELSE IF security_group_id \notin SgIds THEN "InvalidGroupId.Malformed" ELSE IF sgs[security_group_id].st # "present" THEN "InvalidGroup.NotFound" ELSE "ok"

\* SecurityGroup._exists_already
Sg_exists_already(security_group_id, name, vpc_id, fault) ==
    IF security_group_id # None
    THEN LET code == DescribeSgCode(security_group_id, fault)
         IN IF code = "ok" THEN {SgFound(security_group_id, <<Call("describe_security_groups", "ok")>>)}
            ELSE IF code \in SgNotFoundCodes THEN {SgNotFound(None, <<Call("describe_security_groups", code)>>)}
            ELSE {SgNotFound("ClientError", <<Call("describe_security_groups", code)>>)}
    ELSE LET match == {g \in SgIds : sgs[g].st = "present" /\ sgs[g].name = name /\ sgs[g].vpc = vpc_id}
         IN IF match = {} THEN {SgNotFound(None, <<Call("describe_security_groups", "ok")>>)}
            ELSE {SgFound(g, <<Call("describe_security_groups", "ok")>>) : g \in match}

\* SecurityGroup._create, on an object already holding its name, its Vpc
\* and its description.
\* The inbound rules _create asks for: TCP 80 and TCP 22, each from every
\* IPv4 and every IPv6 address.
ip_permissions == {<<"TCP", 80, "0.0.0.0/0">>, <<"TCP", 80, "::/0">>, <<"TCP", 22, "0.0.0.0/0">>, <<"TCP", 22, "::/0">>}

\* SecurityGroup._create.  by: who issued the create call, kept for the
\* properties only.
SgCreate(obj, calls, fault) ==
    LET g == FreshSg
        code == IF fault = "create" THEN "UnauthorizedOperation"
                ELSE IF vpcs[obj.vpc_id].st # "present" THEN "InvalidVpcID.NotFound"
                ELSE IF g = None THEN "SecurityGroupLimitExceeded"
                ELSE "ok"
        made == [sgs EXCEPT ![g] = [AbsentSg EXCEPT !.st = "present", !.name = obj.name, !.vpc = obj.vpc_id, !.desc = obj.desc, !.by = "cloudknot"]]
        c1 == calls \o <<Call("create_security_group", code)>>
        opened == [made EXCEPT ![g].ingress = ip_permissions]
        tagged == [opened EXCEPT ![g].owner = "cloudknot"]
    IN IF code # "ok"
       THEN SgOutcome("ClientError", {}, "missing", c1, sgs, ec2s, ces, config, BlankInst)
       ELSE IF "ClientErro" \notin EC2_exceptions
       THEN SgOutcome("AttributeError", {}, "missing", c1, made, ec2s, ces, config, BlankInst)
       ELSE IF fault = "poll"
       THEN SgOutcome("RetryError", {}, "missing", c1 \o <<Call("authorize_security_group_ingress", "RequestLimitExceeded")>>, made, ec2s, ces, config, BlankInst)
       ELSE SgOutcome(None, {}, "missing", c1 \o <<Call("authorize_security_group_ingress", "ok"), Call("create_tags", "ok")>>, tagged, ec2s, ces, add_resource(config, "security-groups", g, obj.name), [obj EXCEPT !.id = g])

\* SecurityGroup.__init__.  vpc is a slot holding a Vpc object, 0 for None,
\* or -1 for a value that is no Vpc (the tests pass 5).
IsVpcObject(vpc) == vpc \in Slots /\ inst[vpc].kind = "vpc"

SgInitOutcomes(security_group_id, name, vpc, description, fault) ==
    IF ~(security_group_id # None \/ (name # None /\ vpc # 0))
    THEN {SgOutcome("ValueError", {}, "none", <<>>, sgs, ec2s, ces, config, BlankInst)}
    ELSE IF security_group_id # None /\ (name # None \/ vpc # 0 \/ description # None)
    THEN {SgOutcome("ValueError", {}, "none", <<>>, sgs, ec2s, ces, config, BlankInst)}
    ELSE IF vpc # 0 /\ ~IsVpcObject(vpc)
    THEN {SgOutcome("ValueError", {}, "none", <<>>, sgs, ec2s, ces, config, BlankInst)}
    ELSE LET vpc_id == IF vpc # 0 THEN inst[vpc].id ELSE None
         IN {
        IF resource.exc # None
        THEN SgOutcome(resource.exc, {}, "error", resource.calls, sgs, ec2s, ces, config, BlankInst)
        ELSE IF resource.exists
        THEN IF name # None \/ vpc # 0
             THEN SgOutcome("ResourceExistsException", {resource.security_group_id}, "found", resource.calls, sgs, ec2s, ces, config, BlankInst)
             ELSE SgOutcome(None, {}, "found", resource.calls, sgs, ec2s, ces, add_resource(config, "security-groups", resource.security_group_id, resource.name), [NamedObject("sg", resource.name) EXCEPT !.pre = TRUE, !.id = resource.security_group_id, !.vpc = 0, !.vpc_id = resource.vpc_id, !.desc = resource.description])
        ELSE IF security_group_id # None
        THEN SgOutcome("ResourceDoesNotExistException", {security_group_id}, "missing", resource.calls, sgs, ec2s, ces, config, BlankInst)
        ELSE SgCreate([NamedObject("sg", name) EXCEPT !.vpc = vpc, !.vpc_id = vpc_id, !.desc = IF description # None THEN description ELSE DefaultSgDescription], resource.calls, fault)
        : resource \in Sg_exists_already(security_group_id, name, vpc_id, fault)}

\* The argument lists SecurityGroup() is called with.
SgArgs ==
    {[security_group_id |-> None, name |-> n, vpc |-> 0, description |-> None, fault |-> "none"] : n \in NameInputs}
    \cup {[security_group_id |-> g, name |-> None, vpc |-> 0, description |-> None, fault |-> f] : g \in SgIds \cup {"causes-error"}, f \in {"none", "lookup"}}
    \cup {[security_group_id |-> "sg-1", name |-> "a", vpc |-> 0, description |-> None, fault |-> "none"]}
    \cup {[security_group_id |-> "sg-1", name |-> None, vpc |-> v, description |-> None, fault |-> "none"] : v \in Slots}
    \cup {[security_group_id |-> "sg-1", name |-> None, vpc |-> 0, description |-> "d", fault |-> "none"]}
    \cup {[security_group_id |-> None, name |-> "a", vpc |-> v, description |-> d, fault |-> "none"] : v \in Slots \cup {-1}, d \in {None, "conflicting description"}}
    \cup {[security_group_id |-> None, name |-> "a", vpc |-> v, description |-> None, fault |-> "create"] : v \in Slots}

ConstructSecurityGroup(i) ==
    /\ account.client = "ec2"
    /\ NextSlot(i)
    /\ \E a \in SgArgs :
        \E o \in SgInitOutcomes(a.security_group_id, a.name, a.vpc, a.description, a.fault) :
            /\ sgs' = o.sgs
            /\ config' = o.config
            /\ inst' = [inst EXCEPT ![i] = o.obj]
            /\ last' = [op |-> "construct", kind |-> "sg", inst |-> i, exc |-> o.exc, rid |-> o.rid, idGiven |-> a.security_group_id, nameGiven |-> a.name, params |-> (a.name # None \/ a.vpc # 0 \/ a.description # None), args |-> [NoArgs EXCEPT !.vpc = a.vpc, !.description = a.description], lookup |-> o.lookup, calls |-> o.calls]
    /\ UNCHANGED <<run, account, vpcs, ec2s, ces, roles, profiles, failed>>

\* wait_for_compute_environment(arn, name): returns once the compute
\* environment has finished deleting, gives up when its time is spent.
\* finished: whether a deletion under way ends within that time.
CeWait(c, finished) == IF c.st = "DELETED" \/ (c.st = "DELETING" /\ finished) THEN "ok" ELSE "timeout"

\* SecurityGroup.clobber: the registry entry goes once delete_security_group
\* has returned.
SgRegistryAfter_Early(cfg, g, deleted) == remove_resource(cfg, "security-groups", g)

SgRegistryAfter_AlsoVpc(cfg, g, deleted) == IF deleted THEN remove_resource(remove_resource(cfg, "security-groups", g), "vpc", sgs[g].vpc) ELSE cfg

SgRegistryAfter(cfg, g, deleted) == IF deleted THEN remove_resource(cfg, "security-groups", g) ELSE cfg

\* SecurityGroup.clobber: "if error_code == 'DependencyViolation'", the one
\* error after which delete_security_group is called again.
RetriesDelete_Never(error_code) == FALSE

RetriesDelete(error_code) == error_code = "DependencyViolation"

\* SecurityGroup.clobber.  settled: whether the instances terminated by this
\* call have released the group when the delete is tried again.
SgClobberOutcome(o, finished, settled, fault) ==
    LET g == o.id
        deps == ec2s.st = "running" /\ ec2s.vpc = o.vpc_id /\ ec2s.sg = g
        e1 == IF deps THEN [ec2s EXCEPT !.st = "shutting-down"] ELSE ec2s
        c1 == <<Call("describe_instances", "ok")>> \o (IF deps THEN <<Call("terminate_instances", "ok")>> ELSE <<>>) \o <<Call("describe_compute_environments", "ok")>>
        waits == ces.st # "none" /\ ces.sg = g
        waited == IF waits THEN CeWait(ces, finished) ELSE "ok"
        ce1 == IF waits /\ waited = "ok" THEN [ces EXCEPT !.st = "DELETED"] ELSE ces
        c2 == c1 \o (IF waits THEN <<Call("wait_for_compute_environment", waited)>> ELSE <<>>)
        held == (e1.st \in {"running", "shutting-down"} /\ e1.sg = g) \/ (ce1.st \in {"VALID", "DELETING"} /\ ce1.sg = g)
        first == IF fault = "delete" THEN "UnauthorizedOperation"
                 ELSE IF sgs[g].st # "present" THEN "InvalidGroup.NotFound"
                 ELSE IF held THEN "DependencyViolation"
                 ELSE "ok"
        e2 == IF settled /\ e1.st = "shutting-down" THEN [e1 EXCEPT !.st = "terminated"] ELSE e1
        heldAgain == (e2.st \in {"running", "shutting-down"} /\ e2.sg = g) \/ (ce1.st \in {"VALID", "DELETING"} /\ ce1.sg = g)
        second == IF heldAgain THEN "DependencyViolation" ELSE "ok"
        deleted == [sgs EXCEPT ![g] = [AbsentSg EXCEPT !.st = "deleted"]]
        cfg == SgRegistryAfter(config, g, TRUE)
        kept == SgRegistryAfter(config, g, FALSE)
    IN IF waited # "ok"
       THEN SgOutcome("RetryError", {}, "none", c2, sgs, e1, ce1, kept, o)
       ELSE IF first = "ok"
       THEN SgOutcome(None, {}, "none", c2 \o <<Call("delete_security_group", "ok")>>, deleted, e1, ce1, cfg, o)
       ELSE IF ~RetriesDelete(first)
       THEN SgOutcome("ClientError", {}, "none", c2 \o <<Call("delete_security_group", first)>>, sgs, e1, ce1, kept, o)
       ELSE IF second = "ok"
       THEN SgOutcome(None, {}, "none", c2 \o <<Call("delete_security_group", first), Call("delete_security_group", "ok")>>, deleted, e2, ce1, cfg, o)
       ELSE SgOutcome("ClientError", {}, "none", c2 \o <<Call("delete_security_group", first), Call("delete_security_group", second)>>, sgs, e2, ce1, kept, o)

ClobberSecurityGroup(i) ==
    /\ account.client = "ec2"
    /\ inst[i].st \in {"live", "gone"}
    /\ inst[i].kind = "sg"
    /\ \E finished \in BOOLEAN, settled \in BOOLEAN, fault \in {"none", "delete"} :
        LET o == SgClobberOutcome(inst[i], finished, settled, fault)
        IN /\ sgs' = o.sgs
           /\ ec2s' = o.ec2s
           /\ ces' = o.ces
           /\ config' = o.config
           /\ inst' = [inst EXCEPT ![i] = Returned(o)]
           /\ failed' = [failed EXCEPT ![i] = Refused(@, o.exc)]
           /\ last' = ClobberLast(i, o)
    /\ UNCHANGED <<run, account, vpcs, roles, profiles>>

\* ---------------------------------------------------------------- IamRole
\* The managed policies of the account, as list_policies pages them.
PolicyPages == <<{"AWSLambdaRole"}, {"AmazonS3FullAccess", "AmazonS3ReadOnlyAccess"}>>

RECURSIVE PagesFrom(_)
PagesFrom(k) == IF k > Len(PolicyPages) THEN {} ELSE PolicyPages[k] \cup PagesFrom(k + 1)

\* iam.create_role(RoleName=name, AssumeRolePolicyDocument=<batch>) and
\* iam.attach_role_policy(<AWSLambdaRole>) issued with boto3 directly.
Boto3CreateRole(n) ==
    /\ account.client = "iam"
    /\ roles[n].st = "absent"
    /\ roles' = [roles EXCEPT ![n] = [st |-> "present", desc |-> "", service |-> "batch.amazonaws.com", policies |-> {"AWSLambdaRole"}]]
    /\ last' = EnvLast
    /\ UNCHANGED <<run, account, vpcs, sgs, ec2s, ces, profiles, config, inst, failed>>

\* An instance profile of the role's name made outside cloudknot.
Boto3CreateInstanceProfile(n) ==
    /\ account.client = "iam"
    /\ profiles[n] = "absent"
    /\ profiles' = [profiles EXCEPT ![n] = None]
    /\ last' = EnvLast
    /\ UNCHANGED <<run, account, vpcs, sgs, ec2s, ces, roles, config, inst, failed>>

\* AWS Batch, outside cloudknot: a compute environment that uses a security
\* group or a service role is created, asked to delete, and is deleted.
CreateComputeEnvironment(g, r) ==
    /\ ces.st = "none"
    /\ g # None \/ r # None
    /\ g # None => sgs[g].st = "present"
    /\ r # None => roles[r].st = "present"
    /\ ces' = [st |-> "VALID", sg |-> g, role |-> IF r = None THEN None ELSE ArnOf(r)]
    /\ last' = EnvLast
    /\ UNCHANGED <<run, account, vpcs, sgs, ec2s, roles, profiles, config, inst, failed>>

DeleteComputeEnvironment ==
    /\ ces.st = "VALID"
    /\ ces' = [ces EXCEPT !.st = "DELETING"]
    /\ last' = EnvLast
    /\ UNCHANGED <<run, account, vpcs, sgs, ec2s, roles, profiles, config, inst, failed>>

ComputeEnvironmentDeleted ==
    /\ ces.st = "DELETING"
    /\ ces' = [ces EXCEPT !.st = "DELETED"]
    /\ last' = EnvLast
    /\ UNCHANGED <<run, account, vpcs, sgs, ec2s, roles, profiles, config, inst, failed>>

allowed_services == {"batch", "ec2", "ecs-tasks", "lambda", "spotfleet"}

\* service + '.amazonaws.com'
Principal(service) == IF service = "batch" THEN "batch.amazonaws.com" ELSE IF service = "ec2" THEN "ec2.amazonaws.com" ELSE IF service = "ecs-tasks" THEN "ecs-tasks.amazonaws.com" ELSE IF service = "lambda" THEN "lambda.amazonaws.com" ELSE "spotfleet.amazonaws.com"

\* A policies argument: a string or a sequence of strings (str: its names),
\* or something else (the tests pass 455 and [455, 455]).
Policies(names) == [str |-> TRUE, names |-> names]
NotStrings == [str |-> FALSE, names |-> <<>>]
Truthy(policies) == ~policies.str \/ policies.names # <<>>

\* IamRole.__init__: input_policies = set(list(policies)), the names given
\* with the redundant entries removed.
InputPolicies(policies) == {policies.names[k] : k \in DOMAIN policies.names}

\* any([description, service, policies]) and the rest, as Python reads the
\* arguments: None, (), False are false.
IsBool(flag) == flag \in {"False", "True"}

RoleOutcome(exc, rid, lookup, calls, r, p, c, cfg, obj) == [exc |-> exc, rid |-> rid, lookup |-> lookup, calls |-> calls, roles |-> r, profiles |-> p, ces |-> c, config |-> cfg, obj |-> obj]

\* ObjectWithArn._get_section_name('roles')
get_section_name(resource_type) == resource_type

\* IamRole._exists_already: get_role, retried while it answers NoSuchEntity
\* until the retry's time is spent, then the attached policies.
GetRoleAttempts_GiveUpEarly(present, fault) == IF present /\ fault # "lag" THEN <<Call("get_role", "ok")>> ELSE <<Call("get_role", "NoSuchEntity")>>

\* The attempts of retry.call(get_role): a role that exists is found, at
\* once or (fault "lag": not visible yet) at the last attempt the time
\* allows; a role that does not exist is not found at any attempt.
GetRoleAttempts(present, fault) ==
    IF present
    THEN (IF fault = "lag" THEN CallEach("get_role", MaxAttempts - 1, "NoSuchEntity") ELSE <<>>) \o <<Call("get_role", "ok")>>
    ELSE RetryCall("get_role", "NoSuchEntity", {"NoSuchEntity"})

Role_exists_already(name, fault) ==
    LET attempts == GetRoleAttempts(roles[name].st = "present", fault)
    IN IF fault = "lookup" THEN [exc |-> "ClientError", exists |-> FALSE, description |-> None, service |-> None, policies |-> {}, arn |-> None, calls |-> RetryCall("get_role", "ServiceFailure", {"NoSuchEntity"})]
       ELSE IF attempts[Len(attempts)].r = "ok" THEN [exc |-> None, exists |-> TRUE, description |-> roles[name].desc, service |-> roles[name].service, policies |-> roles[name].policies, arn |-> ArnOf(name), calls |-> attempts \o <<Call("list_attached_role_policies", "ok")>>]
       ELSE [exc |-> None, exists |-> FALSE, description |-> None, service |-> None, policies |-> {}, arn |-> None, calls |-> attempts]

\* The list_policies calls that find one policy's ARN: one per page up to
\* the page that holds it.
\* A policy in no page is looked for to the last page, whose response holds
\* no 'Marker': KeyError.
FindPolicy(policy) == IF policy \in PagesFrom(1) THEN CallEach("list_policies", Min({k \in DOMAIN PolicyPages : policy \in PolicyPages[k]}), "ok") ELSE CallEach("list_policies", Len(PolicyPages), "ok")

RECURSIVE AttachAll(_)
AttachAll(ps) == IF ps = <<>> THEN <<>> ELSE IF Head(ps) \notin PagesFrom(1) THEN FindPolicy(Head(ps)) ELSE FindPolicy(Head(ps)) \o <<Call("attach_role_policy", "ok")>> \o AttachAll(Tail(ps))

\* The policies the attach loop has attached when it ends.
RECURSIVE Attached_FirstOnly(_)
Attached_FirstOnly(ps) == IF ps = <<>> \/ Head(ps) \notin PagesFrom(1) THEN {} ELSE {Head(ps)}

RECURSIVE Attached(_)
Attached(ps) == IF ps = <<>> \/ Head(ps) \notin PagesFrom(1) THEN {} ELSE {Head(ps)} \cup Attached(Tail(ps))

\* IamRole._create, on an object already holding its description, service
\* and policies.
add_role_to_instance_profile_UnlessExisting(n) == IF profiles[n] = "absent" THEN [profiles EXCEPT ![n] = n] ELSE profiles

\* IamRole._create: add_role_to_instance_profile, issued after
\* create_instance_profile succeeded and after it answered
\* EntityAlreadyExists alike.
add_role_to_instance_profile(n) == [profiles EXCEPT ![n] = n]

RoleCreate(obj, add_instance_profile, calls, fault) ==
    LET n == obj.name
        made == [roles EXCEPT ![n] = [st |-> "present", desc |-> obj.desc, service |-> obj.service, policies |-> Attached(SetToSeq(obj.policies))]]
        c1 == calls \o <<Call("create_role", "ok")>> \o AttachAll(SetToSeq(obj.policies))
        existed == profiles[n] # "absent"
        occupied == existed /\ profiles[n] # None
        pcalls == IF existed THEN <<Call("create_instance_profile", "EntityAlreadyExists"), Call("add_role_to_instance_profile", IF occupied THEN "LimitExceeded" ELSE "ok")>>
                  ELSE <<Call("create_instance_profile", "ok"), Call("wait_instance_profile_exists", "ok"), Call("add_role_to_instance_profile", "ok")>>
        joined == add_role_to_instance_profile(n)
        cfg == add_resource(config, get_section_name("roles"), n, ArnOf(n))
        bound == [obj EXCEPT !.id = n, !.arn = ArnOf(n), !.section = get_section_name("roles")]
    IN IF fault = "create"
       THEN RoleOutcome("ClientError", {}, "missing", calls \o <<Call("create_role", "LimitExceeded")>>, roles, profiles, ces, config, BlankInst)
       ELSE IF ~(obj.policies \subseteq PagesFrom(1))
       THEN RoleOutcome("KeyError", {}, "missing", c1, made, profiles, ces, config, BlankInst)
       ELSE IF add_instance_profile # "True"
       THEN RoleOutcome(None, {}, "missing", c1, made, profiles, ces, cfg, bound)
       ELSE IF occupied
       THEN RoleOutcome("ClientError", {}, "missing", c1 \o pcalls, made, profiles, ces, config, BlankInst)
       ELSE RoleOutcome(None, {}, "missing", c1 \o pcalls, made, joined, ces, cfg, bound)

\* IamRole.__init__: "if not (input_policies < set(aws_policies))", Python's
\* proper-subset test.
PoliciesKnown_Always(input_policies, aws_policies) == TRUE

PoliciesKnown(input_policies, aws_policies) == input_policies \subseteq aws_policies /\ input_policies # aws_policies

\* IamRole.__init__: the object bound when the resolver found the role; its
\* service is the principal of the role's trust policy.
RoleAdopted_NoService(name, role) == [NamedObject("role", name) EXCEPT !.pre = TRUE, !.id = name, !.desc = role.description, !.policies = role.policies, !.arn = role.arn, !.section = get_section_name("roles")]

RoleAdopted(name, role) == [NamedObject("role", name) EXCEPT !.pre = TRUE, !.id = name, !.desc = role.description, !.service = role.service, !.policies = role.policies, !.arn = role.arn, !.section = get_section_name("roles")]

NothingToCreateFrom_UnlessProfile(description, service, policies, add_instance_profile) == ~(description # None \/ service # None \/ Truthy(policies) \/ add_instance_profile = "True")

\* IamRole.__init__: "if not any([description, service, policies])", for a
\* role that does not exist; add_instance_profile is not in the list.
NothingToCreateFrom(description, service, policies, add_instance_profile) == ~(description # None \/ service # None \/ Truthy(policies))

\* IamRole.__init__
RoleInitOutcome(name, description, service, policies, add_instance_profile, fault) ==
    LET role == Role_exists_already(name, fault)
        svc == IF service # None THEN service ELSE "ecs-tasks"
        listed == CallEach("list_policies", Len(PolicyPages), "ok")
        aws_policies == PagesFrom(1)
        obj == [NamedObject("role", name) EXCEPT !.desc = IF description # None THEN description ELSE DefaultRoleDescription, !.service = Principal(svc), !.policies = InputPolicies(policies)]
    IN IF role.exc # None
       THEN RoleOutcome(role.exc, {}, "error", role.calls, roles, profiles, ces, config, BlankInst)
       ELSE IF role.exists
       THEN IF description # None \/ Truthy(policies) \/ add_instance_profile # "False" \/ service # None
            THEN RoleOutcome("ResourceExistsException", {name}, "found", role.calls, roles, profiles, ces, config, BlankInst)
            ELSE RoleOutcome(None, {}, "found", role.calls, roles, profiles, ces, add_resource(config, get_section_name("roles"), name, role.arn), RoleAdopted(name, role))
       ELSE IF NothingToCreateFrom(description, service, policies, add_instance_profile)
       THEN RoleOutcome("ResourceDoesNotExistException", {name}, "missing", role.calls, roles, profiles, ces, config, BlankInst)
       ELSE IF svc \notin allowed_services
       THEN RoleOutcome("ValueError", {}, "missing", role.calls, roles, profiles, ces, config, BlankInst)
       ELSE IF ~policies.str
       THEN RoleOutcome("ValueError", {}, "missing", role.calls, roles, profiles, ces, config, BlankInst)
       ELSE IF ~PoliciesKnown(InputPolicies(policies), aws_policies)
       THEN RoleOutcome("ValueError", {}, "missing", role.calls \o listed, roles, profiles, ces, config, BlankInst)
       ELSE IF ~IsBool(add_instance_profile)
       THEN RoleOutcome("ValueError", {}, "missing", role.calls \o listed, roles, profiles, ces, config, BlankInst)
       ELSE RoleCreate(obj, add_instance_profile, role.calls \o listed, fault)

\* The argument lists IamRole() is called with.
RoleArgs ==
    {[name |-> n, description |-> None, service |-> None, policies |-> Policies(<<>>), add_instance_profile |-> p, fault |-> f] : n \in RoleNames, p \in {"False", "True"}, f \in {"none", "lookup", "lag"}}
    \cup {[name |-> n, description |-> d, service |-> s, policies |-> Policies(<<>>), add_instance_profile |-> "False", fault |-> "none"] : n \in RoleNames, d \in {None, "d"}, s \in {"batch", "ec2", "value-error"}}
    \cup {[name |-> n, description |-> None, service |-> "ec2", policies |-> p, add_instance_profile |-> "False", fault |-> "none"] : n \in RoleNames, p \in {Policies(<<"AmazonS3FullAccess">>), Policies(<<"AmazonS3FullAccess", "AmazonS3FullAccess">>), Policies(<<"NotAnAWSPolicy">>), Policies(<<"AWSLambdaRole", "NotAnAWSPolicy">>), Policies(<<"AWSLambdaRole", "AmazonS3FullAccess">>), Policies(<<"AWSLambdaRole", "AmazonS3FullAccess", "AmazonS3ReadOnlyAccess">>), NotStrings}}
    \cup {[name |-> n, description |-> None, service |-> "ec2", policies |-> Policies(<<>>), add_instance_profile |-> p, fault |-> f] : n \in RoleNames, p \in {"True", "455"}, f \in {"none", "create"}}

ConstructIamRole(i) ==
    /\ account.client = "iam"
    /\ NextSlot(i)
    /\ \E a \in RoleArgs :
        LET o == RoleInitOutcome(a.name, a.description, a.service, a.policies, a.add_instance_profile, a.fault)
        IN /\ roles' = o.roles
           /\ profiles' = o.profiles
           /\ config' = o.config
           /\ inst' = [inst EXCEPT ![i] = o.obj]
           /\ last' = [op |-> "construct", kind |-> "role", inst |-> i, exc |-> o.exc, rid |-> o.rid, idGiven |-> a.name, nameGiven |-> a.name, params |-> (a.description # None \/ a.service # None \/ Truthy(a.policies) \/ a.add_instance_profile # "False"), args |-> [NoArgs EXCEPT !.description = a.description, !.service = a.service, !.policies = a.policies, !.add_instance_profile = a.add_instance_profile], lookup |-> o.lookup, calls |-> o.calls]
    /\ UNCHANGED <<run, account, vpcs, sgs, ec2s, ces, failed>>

\* IamRole.instance_profile_arn, below its clobbered check: the ARN of the
\* first instance profile that holds the role.
ProfilesOf(name) == {p \in RoleNames : profiles[p] = name}

\* IamRole.instance_profile_arn: "if self.clobbered: raise".
RaisesClobbered_Never(o) == FALSE

RaisesClobbered(o) == o.clobbered

\* IamRole.instance_profile_arn (a property: reading it is the call).
InstanceProfileArn(i) ==
    /\ account.client = "iam"
    /\ inst[i].kind = "role"
    /\ inst[i].st \in {"live", "gone"}
    /\ last' = [op |-> "instance_profile_arn", kind |-> "role", inst |-> i,
                 exc |-> IF RaisesClobbered(inst[i]) THEN "ResourceClobberedException" ELSE IF roles[inst[i].name].st # "present" THEN "ClientError" ELSE None,
                 rid |-> IF RaisesClobbered(inst[i]) THEN {inst[i].arn} ELSE {},
                 idGiven |-> None, nameGiven |-> None, params |-> FALSE, args |-> NoArgs, lookup |-> "none",
                 calls |-> IF RaisesClobbered(inst[i]) THEN <<>> ELSE <<Call("list_instance_profiles_for_role", IF roles[inst[i].name].st # "present" THEN "NoSuchEntity" ELSE "ok")>>]
    /\ UNCHANGED <<run, account, vpcs, sgs, ec2s, ces, roles, profiles, config, inst, failed>>

\* The detach loop of IamRole.clobber over the object's policies: it stops
\* at the first policy the remote role does not have attached.
RECURSIVE DetachAll(_, _)
DetachAll(ps, attached) ==
    IF ps = <<>> THEN [ok |-> TRUE, calls |-> <<>>, attached |-> attached]
    ELSE IF Head(ps) \notin attached THEN [ok |-> FALSE, calls |-> FindPolicy(Head(ps)) \o <<Call("detach_role_policy", "NoSuchEntity")>>, attached |-> attached]
    ELSE LET rest == DetachAll(Tail(ps), attached \ {Head(ps)})
         IN [rest EXCEPT !.calls = FindPolicy(Head(ps)) \o <<Call("detach_role_policy", "ok")>> \o @]

\* IamRole.clobber: "if self.clobbered: return".
RoleClobberIsNoop_Never(o) == FALSE

RoleClobberIsNoop(o) == o.clobbered

\* IamRole.clobber: the registry entry goes once delete_role has returned.
RoleRegistryAfter(cfg, section, n, deleted) == IF deleted THEN remove_resource(cfg, section, n) ELSE cfg

\* IamRole.clobber: "c['status'] not in ['DELETING', 'DELETED']", a compute
\* environment that is not on its way out.
Conflicting_Never(status) == FALSE

Conflicting(status) == status \notin {"DELETING", "DELETED"}

\* IamRole.clobber, is_deleting(res): the answer the poll is repeated on.
is_deleting_Never(status) == FALSE

is_deleting(status) == status = "DELETING"

\* IamRole.clobber.  finished: whether a compute environment that is being
\* deleted is gone before the polling gives up.
RoleClobberOutcome(o, finished, fault) ==
    LET n == o.name
        batch == o.service = "batch.amazonaws.com"
        dependent == ces.st # "none" /\ ces.role = o.arn
        conflicting == dependent /\ Conflicting(ces.st)
        c0 == IF batch THEN <<Call("describe_compute_environments", "ok")>> ELSE <<>>
        polled == batch /\ dependent
        stuck == polled /\ is_deleting(ces.st) /\ ~finished
        ce1 == IF polled /\ ces.st = "DELETING" /\ finished THEN [ces EXCEPT !.st = "DELETED"] ELSE ces
        c1 == c0 \o (IF polled THEN RetryCall("describe_compute_environments", IF stuck THEN "DELETING" ELSE "ok", {"DELETING"}) ELSE <<>>)
        exists == roles[n].st = "present"
        c2 == c1 \o <<Call("list_instance_profiles_for_role", IF exists THEN "ok" ELSE "NoSuchEntity")>>
        held == ProfilesOf(n)
        first == CHOOSE p \in held : TRUE
        p1 == IF held # {} THEN [profiles EXCEPT ![first] = "absent"] ELSE profiles
        c3 == c2 \o (IF held # {} THEN <<Call("list_instance_profiles_for_role", "ok"), Call("remove_role_from_instance_profile", "ok"), Call("delete_instance_profile", "ok")>> ELSE <<>>)
        det == DetachAll(SetToSeq(o.policies), roles[n].policies)
        r1 == [roles EXCEPT ![n].policies = det.attached]
        c4 == c3 \o det.calls
        code == IF fault = "delete" THEN "ServiceFailure"
                ELSE IF det.attached # {} \/ {p \in RoleNames : p1[p] = n} # {} THEN "DeleteConflict"
                ELSE "ok"
        c5 == c4 \o <<Call("delete_role", code)>>
        r2 == [r1 EXCEPT ![n] = AbsentRole]
        kept == RoleRegistryAfter(config, o.section, n, FALSE)
    IN IF RoleClobberIsNoop(o)
       THEN RoleOutcome(None, {}, "none", <<>>, roles, profiles, ces, config, o)
       ELSE IF batch /\ conflicting
       THEN RoleOutcome("CannotDeleteResourceException", {CeArn}, "none", c0, roles, profiles, ces, kept, o)
       ELSE IF stuck
       THEN RoleOutcome("CannotDeleteResourceException", {CeArn}, "none", c1, roles, profiles, ces, kept, o)
       ELSE IF ~exists
       THEN RoleOutcome("ClientError", {}, "none", c2, roles, profiles, ce1, kept, o)
       ELSE IF ~det.ok
       THEN RoleOutcome("ClientError", {}, "none", c4, r1, p1, ce1, kept, o)
       ELSE IF code # "ok"
       THEN RoleOutcome("ClientError", {}, "none", c5, r1, p1, ce1, kept, o)
       ELSE RoleOutcome(None, {}, "none", c5, r2, p1, ce1, RoleRegistryAfter(config, o.section, n, TRUE), [o EXCEPT !.clobbered = TRUE])

ClobberIamRole(i) ==
    /\ account.client = "iam"
    /\ inst[i].st \in {"live", "gone"}
    /\ inst[i].kind = "role"
    /\ \E finished \in BOOLEAN, fault \in {"none", "delete"} :
        LET o == RoleClobberOutcome(inst[i], finished, fault)
        IN /\ roles' = o.roles
           /\ profiles' = o.profiles
           /\ ces' = o.ces
           /\ config' = o.config
           /\ inst' = [inst EXCEPT ![i] = Returned(o)]
           /\ failed' = [failed EXCEPT ![i] = Refused(@, o.exc)]
           /\ last' = ClobberLast(i, o)
    /\ UNCHANGED <<run, account, vpcs, sgs, ec2s>>

Next ==
    \/ Boto3CreateVpc
    \/ \E v \in VpcIds : Boto3CreateSecurityGroup(v)
    \/ \E g \in SgIds : RunInstance(g)
    \/ \E i \in Slots : ConstructVpc(i)
    \/ \E i \in Slots : ClobberVpc(i)
    \/ \E i \in Slots : ConstructSecurityGroup(i)
    \/ \E i \in Slots : ClobberSecurityGroup(i)
    \/ \E n \in RoleNames : Boto3CreateRole(n)
    \/ \E n \in RoleNames : Boto3CreateInstanceProfile(n)
    \/ \E g \in SgIds \cup {None}, r \in RoleNames \cup {None} : CreateComputeEnvironment(g, r)
    \/ DeleteComputeEnvironment
    \/ ComputeEnvironmentDeleted
    \/ \E i \in Slots : ConstructIamRole(i)
    \/ \E i \in Slots : ClobberIamRole(i)
    \/ \E i \in Slots : InstanceProfileArn(i)

Spec == Init /\ [][Next]_vars

\* Vpc creation and destruction alone, over every region size.

\* Adoption on its own: an account of two VPCs, Vpc(vpc_id=v), and
\* Vpc(name=<the synthetic name>) with and without a CIDR block.
AdoptAccounts == {[client |-> "ec2", vpcLimit |-> 2, sgLimit |-> 0, zones |-> NumZones]}

InitAdopt == InitIn(AdoptAccounts)

AdoptArgs ==
    {[vpc_id |-> v, name |-> None, ipv4_cidr |-> None, instance_tenancy |-> None, fault |-> "none"] : v \in VpcIds}
    \cup {[vpc_id |-> None, name |-> SyntheticName, ipv4_cidr |-> c, instance_tenancy |-> None, fault |-> "none"] : c \in {None, DefaultCidr}}

AdoptVpc(i) == ConstructVpcWith(i, AdoptArgs)

\* A Vpc() call that raises: it binds no object, whatever objects the
\* program already holds.
VpcCallRaises ==
    /\ account.client = "ec2"
    /\ \E a \in AdoptArgs :
        \E o \in VpcInitOutcomes(a.vpc_id, a.name, a.ipv4_cidr, a.instance_tenancy, a.fault) :
            /\ o.exc # None
            /\ vpcs' = o.vpcs
            /\ config' = o.config
            /\ last' = [op |-> "construct", kind |-> "vpc", inst |-> 0, exc |-> o.exc, rid |-> o.rid, idGiven |-> a.vpc_id, nameGiven |-> a.name, params |-> (a.ipv4_cidr # None \/ a.instance_tenancy # None), args |-> [NoArgs EXCEPT !.ipv4_cidr = a.ipv4_cidr, !.instance_tenancy = a.instance_tenancy], lookup |-> o.lookup, calls |-> o.calls]
    /\ UNCHANGED <<run, account, sgs, ec2s, ces, roles, profiles, failed, inst>>

NextAdopt ==
    \/ Boto3CreateVpc
    \/ \E i \in Slots : AdoptVpc(i)
    \/ VpcCallRaises
    \/ \E i \in Slots : ClobberVpc(i)

SpecAdopt == InitAdopt /\ [][NextAdopt]_vars

NextRegion ==
    \/ \E i \in Slots : CreateVpcInRegion(i)
    \/ \E i \in Slots : ClobberVpc(i)

SpecRegion == InitRegion /\ [][NextRegion]_vars

\* ------------------------------------------------------------ properties
\* The registry section of a kind of object.
SectionOf(kind) == IF kind = "vpc" THEN "vpc" ELSE IF kind = "sg" THEN "security-groups" ELSE "roles"

HasEntry(cfg, kind, id) == id \in DOMAIN cfg[SectionOf(kind)]

\* The remote call that deletes the resource itself.
DeleteCall(kind) == IF kind = "vpc" THEN "delete_vpc" ELSE IF kind = "sg" THEN "delete_security_group" ELSE "delete_role"

\* The step is a call of clobber() / of a constructor.
IsClobber == last'.op = "clobber" /\ vars' # vars

IsConstruct == last'.op = "construct" /\ vars' # vars

\* The object the last call was made on.
Target == inst[last.inst]

\* C1: adopting an existing remote resource by its identifier and then
\* calling clobber() on that instance, which returns, leaves no entry for
\* the identifier in the section of its kind.
C1_AdoptThenClobberLeavesNoEntry ==
    [][(IsClobber /\ inst[last'.inst].pre /\ inst[last'.inst].st = "live" /\ last'.exc = None)
        => ~HasEntry(config', inst[last'.inst].kind, inst[last'.inst].id)]_vars

C1_Witness ==
    /\ last.op = "clobber" /\ last.exc = None /\ last.calls # <<>>
    /\ Target.kind = "sg" /\ Target.pre /\ Target.st = "gone"
    /\ ~HasEntry(config, "sg", Target.id)

\* C2 as stated: every instance that was constructed and has not itself
\* been clobbered has its entry in the section of its kind.
C2_EveryLiveInstanceHasEntry ==
    \A i \in Slots : inst[i].st = "live" => HasEntry(config, inst[i].kind, inst[i].id)

\* Another instance for the same remote identifier has completed clobber().
AliasClobbered(i) == \E j \in Slots \ {i} : inst[j].st = "gone" /\ inst[j].kind = inst[i].kind /\ inst[j].id = inst[i].id

\* C2, amended: every instance that was constructed and has not itself been
\* clobbered has its entry, provided no other instance constructed for the
\* same remote identifier has completed clobber().
C2_LiveInstanceHasEntryUnlessAliasClobbered ==
    \A i \in Slots : (inst[i].st = "live" /\ ~AliasClobbered(i)) => HasEntry(config, inst[i].kind, inst[i].id)

C2_Witness ==
    \E i \in Slots : \E j \in Slots \ {i} :
        /\ inst[i].st = "live" /\ inst[j].st = "live"
        /\ inst[i].kind = inst[j].kind /\ inst[i].id = inst[j].id
        /\ HasEntry(config, inst[i].kind, inst[i].id)

\* C3: a clobber() that raises leaves the registry as it was and the
\* instance not marked clobbered; an entry leaves the registry only in a
\* clobber() of an instance for that identifier whose last remote call, the
\* delete of the resource itself, succeeded.
C3_FailedClobberKeepsEntry ==
    [][/\ (IsClobber /\ last'.exc # None) => (config' = config /\ ~inst'[last'.inst].clobbered)
       /\ \A s \in Sections : \A id \in DOMAIN config[s] :
            id \notin DOMAIN config'[s] =>
                /\ last'.op = "clobber" /\ last'.exc = None
                /\ SectionOf(inst[last'.inst].kind) = s /\ inst[last'.inst].id = id
                /\ last'.calls # <<>>
                /\ last'.calls[Len(last'.calls)] = Call(DeleteCall(inst[last'.inst].kind), "ok")]_vars

C3_Witness ==
    /\ last.op = "clobber" /\ last.exc = "CannotDeleteResourceException"
    /\ Target.st = "live" /\ ~Target.clobbered
    /\ HasEntry(config, Target.kind, Target.id)

\* C4: clobber() on an instance whose clobber() has already returned is a
\* no-op: no remote call, no error, the registry unchanged.
C4_SecondClobberIsNoop ==
    [][(IsClobber /\ inst[last'.inst].st = "gone")
        => (last'.calls = <<>> /\ last'.exc = None /\ config' = config)]_vars

\* C5: when clobber() returns, the instance's clobbered flag is true and its
\* registry entry is gone.
C5_ClobberSetsFlagAndRemovesEntry ==
    [][(IsClobber /\ inst[last'.inst].st = "live" /\ last'.exc = None)
        => (inst'[last'.inst].clobbered /\ ~HasEntry(config', inst[last'.inst].kind, inst[last'.inst].id))]_vars

\* An instance moves none -> live -> gone and never back.
LifecycleOrder(a, b) == (a = "none" /\ b \in {"none", "live"}) \/ (a = "live" /\ b \in {"live", "gone"}) \/ (a = "gone" /\ b = "gone")

\* C6: the lifecycle is UNINITIALIZED -> {ADOPTED | CREATED} -> CLOBBERED;
\* a clobbered instance stays clobbered, keeps its flag, and no operation on
\* it changes the remote or the registry.
C6_ClobberedIsAbsorbing ==
    [][/\ \A i \in Slots : LifecycleOrder(inst[i].st, inst'[i].st) /\ (inst[i].clobbered => inst'[i].clobbered)
       /\ \A i \in Slots : (inst[i].st = "live" /\ inst'[i].st = "live") => inst'[i] = inst[i]
       /\ (last'.op \in {"clobber", "instance_profile_arn"} /\ vars' # vars /\ inst[last'.inst].st = "gone")
            => (remote' = remote /\ config' = config /\ inst' = inst)]_vars

C6_Witness ==
    /\ last.op = "clobber" /\ last.calls = <<>> /\ last.exc = None
    /\ Target.st = "gone" /\ Target.clobbered
    /\ roles[Target.name].st = "present"

\* C7: reading instance_profile_arn of a clobbered role raises
\* ResourceClobberedException and issues no remote call.
C7_ClobberedRaisesResourceClobbered ==
    (last.op = "instance_profile_arn" /\ Target.clobbered)
        => (last.exc = "ResourceClobberedException" /\ last.rid = {Target.arn} /\ last.calls = <<>>)

C7_Witness ==
    /\ last.op = "instance_profile_arn" /\ Target.clobbered /\ Target.st = "gone"
    /\ last.exc = "ResourceClobberedException"

\* The remote identifiers the resolver can have discovered for the last
\* constructor call (taken in the state the call started in).
Discovered(l) ==
    IF l.kind = "vpc" THEN {v \in VpcIds : vpcs[v].st = "present" /\ (v = l.idGiven \/ (l.nameGiven # None /\ vpcs[v].name = l.nameGiven))}
    ELSE IF l.kind = "sg" THEN {g \in SgIds : sgs[g].st = "present" /\ (g = l.idGiven \/ (l.nameGiven # None /\ sgs[g].name = l.nameGiven))}
    ELSE {n \in RoleNames : roles[n].st = "present" /\ n = l.nameGiven}

\* C8: when the resolver finds the resource and the caller also gave
\* creation parameters, the constructor raises ResourceExistsException
\* carrying the discovered identifier; the remote and the registry stay as
\* they were.
C8_FoundWithParamsRaisesResourceExists ==
    [][(IsConstruct /\ last'.lookup = "found" /\ last'.params)
        => /\ last'.exc = "ResourceExistsException"
           /\ Cardinality(last'.rid) = 1 /\ last'.rid \subseteq Discovered(last')
           /\ remote' = remote /\ config' = config /\ inst' = inst]_vars

C8_Witness ==
    /\ last.op = "construct" /\ last.kind = "sg" /\ last.lookup = "found" /\ last.params
    /\ last.exc = "ResourceExistsException" /\ last.rid \subseteq SgIds /\ last.rid # {}

C10_MissingIdRaisesResourceDoesNotExist ==
    [][(IsConstruct /\ last'.idGiven # None /\ ~last'.params /\ last'.lookup = "missing")
        => /\ last'.exc = "ResourceDoesNotExistException" /\ last'.rid = {last'.idGiven}
           /\ remote' = remote /\ config' = config /\ inst' = inst]_vars

C10_Witness ==
    /\ last.op = "construct" /\ last.kind = "vpc" /\ last.idGiven \in VpcIds /\ ~last.params
    /\ last.lookup = "missing" /\ last.exc = "ResourceDoesNotExistException" /\ last.rid = {last.idGiven}
\* C11: a constructor that adopts an existing remote resource binds an
\* object with pre_existing true whose attributes are the remote's (Vpc:
\* id, name tag, CIDR, tenancy, subnet ids; SecurityGroup: id, name,
\* vpc_id, description, vpc None; IamRole: arn, description, trust
\* principal, attached policy names), and its registry entry is present.
C11_AdoptedMirrorsRemote ==
    (last.op = "construct" /\ last.exc = None /\ last.lookup = "found")
        => /\ Target.pre /\ Target.st = "live"
           /\ HasEntry(config, Target.kind, Target.id)
           /\ Target.kind = "vpc" =>
                /\ Target.id \in VpcIds /\ vpcs[Target.id].st = "present"
                /\ Target.id = last.idGiven \/ (last.idGiven = None /\ vpcs[Target.id].name = last.nameGiven)
                /\ Target.name = vpcs[Target.id].name
                /\ Target.cidr = vpcs[Target.id].cidr
                /\ Target.tenancy = vpcs[Target.id].tenancy
                /\ Target.subnet_ids = vpcs[Target.id].subnets
           /\ Target.kind = "sg" =>
                /\ Target.id = last.idGiven /\ sgs[Target.id].st = "present"
                /\ Target.name = sgs[Target.id].name
                /\ Target.vpc_id = sgs[Target.id].vpc
                /\ Target.desc = sgs[Target.id].desc
                /\ Target.vpc = 0
           /\ Target.kind = "role" =>
                /\ Target.id = last.nameGiven /\ Target.name = last.nameGiven
                /\ roles[Target.name].st = "present"
                /\ Target.arn = ArnOf(Target.name)
                /\ Target.desc = roles[Target.name].desc
                /\ Target.service = roles[Target.name].service
                /\ Target.policies = roles[Target.name].policies

C11_Witness ==
    /\ last.op = "construct" /\ last.exc = None /\ last.lookup = "found"
    /\ Target.kind = "vpc" /\ Target.pre /\ Target.subnet_ids # {}
    /\ Target.subnet_ids = vpcs[Target.id].subnets
\* The remote call the last operation ended on failed for a reason of the
\* remote's own (a fault injected by the environment).
RemoteFault(l) == l.calls # <<>> /\ l.calls[Len(l.calls)].r \in {"UnauthorizedOperation", "ServiceFailure"}

\* C12: clobber() on a Vpc that still has a security group raises
\* CannotDeleteResourceException naming that group; clobber() on a Vpc
\* instance whose VPC has no security group and no instance left (the
\* groups having been clobbered) returns, the VPC is deleted and its
\* registry entry removed.  Only the retry after a refusal is looked at:
\* failed[i] = "dependents" says every clobber() of the object that raised
\* so far raised CannotDeleteResourceException.
C12_VpcClobberAfterGroupsGone ==
    [][(IsClobber /\ inst[last'.inst].kind = "vpc" /\ inst[last'.inst].st = "live" /\ vpcs[inst[last'.inst].id].st = "present" /\ ~RemoteFault(last'))
        => LET v == inst[last'.inst].id
           IN /\ (SgsOfVpc(v) # {} /\ failed[last'.inst] = "never" /\ vpcs[v].subnets = inst[last'.inst].subnet_ids) => (last'.exc = "CannotDeleteResourceException" /\ SgsOfVpc(v) \subseteq last'.rid)
              /\ (failed[last'.inst] = "dependents" /\ SgsOfVpc(v) = {} /\ ~(ec2s.st \in {"running", "shutting-down"} /\ ec2s.vpc = v))
                    => (last'.exc = None /\ vpcs'[v].st = "deleted" /\ ~HasEntry(config', "vpc", v))]_vars
\* The remote calls that change the remote.
MutatingCalls == {"create_vpc", "create_subnet", "create_tags", "create_security_group", "authorize_security_group_ingress", "create_role", "attach_role_policy", "create_instance_profile", "add_role_to_instance_profile", "delete_vpc", "delete_subnet", "delete_security_group", "delete_role", "delete_instance_profile", "remove_role_from_instance_profile", "detach_role_policy", "terminate_instances"}

NoMutatingCall(calls) == \A k \in DOMAIN calls : calls[k].c \notin MutatingCalls

\* C13: IamRole() for a role that does not exist, given a policy name the
\* catalog does not hold, raises ValueError without any mutating remote
\* call: afterwards no role exists remotely and the registry is as it was.
C13_UnknownPolicyFailsBeforeCreate ==
    [][(IsConstruct /\ last'.kind = "role" /\ last'.lookup = "missing" /\ last'.args.policies.str /\ ~(InputPolicies(last'.args.policies) \subseteq PagesFrom(1)))
        => /\ last'.exc = "ValueError" /\ NoMutatingCall(last'.calls)
           /\ remote' = remote /\ config' = config /\ inst' = inst
           /\ roles'[last'.nameGiven].st # "present"]_vars

C13_Witness ==
    /\ last.op = "construct" /\ last.kind = "role" /\ last.lookup = "missing"
    /\ last.args.policies = Policies(<<"NotAnAWSPolicy">>) /\ last.args.service = "ec2"
    /\ last.exc = "ValueError" /\ roles[last.nameGiven].st # "present"
    /\ \E k \in DOMAIN last.calls : last.calls[k].c = "list_policies"
\* C14: a Vpc or IamRole constructor that raises ValueError (invalid
\* ipv4_cidr, tenancy outside {default, dedicated}, an address block too
\* small for one subnet per zone; service outside the allow-list,
\* non-string policies, non-boolean add_instance_profile) has issued no
\* mutating remote call and has left the remote and the registry as they
\* were.
C14_ValidationBeforeSideEffects ==
    [][(IsConstruct /\ last'.kind \in {"vpc", "role"} /\ last'.exc = "ValueError")
        => (NoMutatingCall(last'.calls) /\ remote' = remote /\ config' = config)]_vars
\* The addresses of a block.
Range(b) == [lo |-> b.base, hi |-> b.base + 2 ^ (32 - b.prefix) - 1]

\* C15: a Vpc created in a region of n zones on a parent block of prefix
\* length p has exactly n subnets, each of prefix length p + ceil(log2(n)):
\* the smallest d with 2^d >= n.
C15_OneSubnetPerZone ==
    (last.op = "construct" /\ last.kind = "vpc" /\ last.exc = None /\ last.lookup = "missing")
        => LET v == Target.id
               n == account.zones
               p == PrefixLen(vpcs[v].cidr)
           IN /\ Cardinality(vpcs[v].subnets) = n
              /\ Cardinality(Target.subnet_ids) = n
              /\ DOMAIN vpcs[v].blocks = vpcs[v].subnets
              /\ \A z \in vpcs[v].subnets :
                    LET d == vpcs[v].blocks[z].prefix - p
                    IN d >= 0 /\ 2 ^ d >= n /\ (d > 0 => 2 ^ (d - 1) < n)
              /\ (n = 3 /\ p = 16) => \A z \in vpcs[v].subnets : vpcs[v].blocks[z].prefix = 18
              /\ (n = 8 /\ p = 16) => \A z \in vpcs[v].subnets : vpcs[v].blocks[z].prefix = 19

C15_Witness ==
    /\ last.op = "construct" /\ last.kind = "vpc" /\ last.exc = None /\ last.lookup = "missing"
    /\ account.zones = 3 /\ vpcs[Target.id].cidr = DefaultCidr
    /\ Cardinality(vpcs[Target.id].subnets) = 3
    /\ \A z \in vpcs[Target.id].subnets : vpcs[Target.id].blocks[z].prefix = 18

\* C16: the subnets of a created Vpc do not overlap one another and each
\* lies within the parent block.
C16_SubnetsDisjointAndNested ==
    (last.op = "construct" /\ last.kind = "vpc" /\ last.exc = None /\ last.lookup = "missing")
        => LET v == Target.id
               parent == Range(Networks[vpcs[v].cidr])
               r(z) == Range(vpcs[v].blocks[z])
           IN /\ \A z \in vpcs[v].subnets : parent.lo <= r(z).lo /\ r(z).lo <= r(z).hi /\ r(z).hi <= parent.hi
              /\ \A y, z \in vpcs[v].subnets : y # z => (r(y).hi < r(z).lo \/ r(z).hi < r(y).lo)

C16_Witness ==
    /\ last.op = "construct" /\ last.kind = "vpc" /\ last.exc = None /\ last.lookup = "missing"
    /\ account.zones = 8 /\ vpcs[Target.id].cidr = "10.1.0.0/24"
    /\ Cardinality(vpcs[Target.id].subnets) = 8
    /\ \E y, z \in vpcs[Target.id].subnets : Range(vpcs[Target.id].blocks[y]).hi + 1 = Range(vpcs[Target.id].blocks[z]).lo

\* The last call was SecurityGroup(name, vpc[, description]) with a Vpc
\* object, found no such group, and its create_security_group call returned.
SgCreateAttempted ==
    /\ last.op = "construct" /\ last.kind = "sg" /\ last.lookup = "missing"
    /\ last.idGiven = None /\ last.nameGiven # None
    /\ \E k \in DOMAIN last.calls : last.calls[k] = Call("create_security_group", "ok")

\* C17: SecurityGroup(name, vpc[, description]), when no such group exists,
\* completes: the group exists remotely, the object reports the name, the
\* Vpc object, its VPC's id and the given or default description, and the
\* new id is in the 'security-groups' registry.
C17_CreateSecurityGroupSucceeds ==
    SgCreateAttempted
        => /\ last.exc = None
           /\ Target.st = "live" /\ Target.kind = "sg" /\ ~Target.pre
           /\ Target.name = last.nameGiven
           /\ Target.vpc = last.args.vpc
           /\ Target.vpc_id = inst[last.args.vpc].id
           /\ Target.desc = (IF last.args.description # None THEN last.args.description ELSE DefaultSgDescription)
           /\ Target.id \in SgIds
           /\ sgs[Target.id].st = "present" /\ sgs[Target.id].name = last.nameGiven
           /\ HasEntry(config, "sg", Target.id)

\* C18: a security group created by cloudknot that is in the registry has
\* the inbound rules TCP 22 and TCP 80 from 0.0.0.0/0 and from ::/0.
C18_RegisteredGroupIsOpen ==
    \A g \in SgIds :
        (sgs[g].st = "present" /\ sgs[g].by = "cloudknot" /\ HasEntry(config, "sg", g))
            => \A port \in {22, 80} : \A source \in {"0.0.0.0/0", "::/0"} : <<"TCP", port, source>> \in sgs[g].ingress

\* The last call was IamRole(name, service = s, policies = P) with s in the
\* allow-list, and it created the role.
RoleCreated ==
    /\ last.op = "construct" /\ last.kind = "role" /\ last.exc = None /\ last.lookup = "missing"
    /\ last.args.service \in allowed_services
    /\ last.args.policies.str

\* C19: an IamRole created with service s of the allow-list and policy names
\* P, all in the catalog, has the trust principal s + '.amazonaws.com',
\* reports as its policies the set of the names in P, and the policies
\* attached to the remote role are exactly those.
C19_CreatedRoleHasServiceAndPolicies ==
    RoleCreated
        => LET P == {last.args.policies.names[k] : k \in DOMAIN last.args.policies.names}
               n == Target.name
           IN /\ P \subseteq UNION {PolicyPages[k] : k \in DOMAIN PolicyPages}
              /\ Target.service = last.args.service \o ".amazonaws.com"
              /\ roles[n].st = "present"
              /\ roles[n].service = last.args.service \o ".amazonaws.com"
              /\ Target.policies = P
              /\ roles[n].policies = P

C19_Witness ==
    /\ RoleCreated
    /\ last.args.service = "ec2"
    /\ last.args.policies.names = <<"AWSLambdaRole", "AmazonS3FullAccess">>
    /\ roles[Target.name].policies = {"AWSLambdaRole", "AmazonS3FullAccess"}
    /\ roles[Target.name].service = "ec2.amazonaws.com"

\* The remote calls that create a resource.
CreateCalls == {"create_vpc", "create_subnet", "create_security_group", "create_role", "create_instance_profile"}

\* No clobber() has been called on an object bound to the resource of
\* kind k and id r.
NeverClobbered(k, r) == \A m \in Slots : (inst[m].kind = k /\ inst[m].id = r) => (inst[m].st = "live" /\ ~inst[m].clobbered /\ failed[m] = "never")

\* Object j is bound by an earlier adoption to the resource of kind k and
\* id r, which the registry lists and no clobber() has been called for.
AdoptedBefore(j, k, r) ==
    /\ inst[j].st = "live" /\ inst[j].pre
    /\ inst[j].kind = k /\ inst[j].id = r
    /\ NeverClobbered(k, r)
    /\ HasEntry(config, k, r)

\* C20: a constructor called with identification parameters only, for a
\* resource that an unclobbered object adopted the same way and that is
\* registered, returns an object with the same attributes as that one,
\* makes no remote create call and leaves the registry as it was, the
\* resource's entry in it.
C20_ReadoptionIsIdempotent ==
    [][(IsConstruct /\ ~last'.params /\ last'.exc = None /\ last'.lookup = "found")
        => \A j \in Slots \ {last'.inst} :
              AdoptedBefore(j, last'.kind, inst'[last'.inst].id)
                  => /\ inst'[last'.inst] = inst[j]
                     /\ inst'[j] = inst[j]
                     /\ \A k \in DOMAIN last'.calls : last'.calls[k].c \notin CreateCalls
                     /\ config' = config
                     /\ HasEntry(config', last'.kind, inst[j].id)]_vars

C20_Witness ==
    /\ last.op = "construct" /\ ~last.params /\ last.exc = None /\ last.lookup = "found"
    /\ \E j \in Slots \ {last.inst} :
          /\ AdoptedBefore(j, last.kind, Target.id)
          /\ inst[j] = Target
          /\ Cardinality({r \in DOMAIN config[SectionOf(last.kind)] : r = Target.id}) = 1

\* Call k of an operation failed and the same call was made again.
Reattempted(calls, k) == k + 1 \in DOMAIN calls /\ calls[k + 1].c = calls[k].c /\ calls[k].r # "ok"

\* The remote calls the code makes under a retry.
RetriedCalls == {"wait_subnet_available", "get_role", "attach_role_policy", "describe_compute_environments", "delete_security_group", "authorize_security_group_ingress"}

Transient == {<<"wait_subnet_available", "WaiterError">>, <<"describe_compute_environments", "DELETING">>, <<"get_role", "NoSuchEntity">>, <<"attach_role_policy", "NoSuchEntity">>, <<"delete_security_group", "DependencyViolation">>}

Exhausted(calls, c, r) ==
    \E k \in DOMAIN calls :
        /\ k + MaxAttempts - 1 \in DOMAIN calls
        /\ \A m \in k..(k + MaxAttempts - 1) : calls[m] = Call(c, r)
        /\ (k + MaxAttempts \in DOMAIN calls => calls[k + MaxAttempts].c # c)

\* A retry of the last operation spent its time.
RetryExhausted ==
    \/ Exhausted(last.calls, "wait_subnet_available", "WaiterError")
    \/ Exhausted(last.calls, "get_role", "NoSuchEntity")
    \/ Exhausted(last.calls, "describe_compute_environments", "DELETING")

\* C22, as stated: an operation one of whose retries spent its time fails
\* with the timeout failure (tenacity.RetryError), in Vpc creation, in
\* IamRole construction and in IamRole.clobber alike.
C22_ExhaustedRetryRaisesTimeout == RetryExhausted => last.exc = "RetryError"

\* C22, amended: the subnet wait of Vpc creation that spent its time fails
\* with RetryError, and only it does; the role lookup that spent its time
\* reports the role as missing and construction goes on; the
\* compute-environment wait of IamRole.clobber that spent its time fails
\* with CannotDeleteResourceException naming the compute environment.
C22_ExhaustedRetryByOperation ==
    /\ Exhausted(last.calls, "wait_subnet_available", "WaiterError") => last.exc = "RetryError"
    /\ (last.op = "construct" /\ last.kind = "vpc" /\ last.exc = "RetryError") => Exhausted(last.calls, "wait_subnet_available", "WaiterError")
    /\ Exhausted(last.calls, "get_role", "NoSuchEntity") => (last.lookup = "missing" /\ last.exc # "RetryError")
    /\ Exhausted(last.calls, "describe_compute_environments", "DELETING")
          => (last.op = "clobber" /\ last.exc = "CannotDeleteResourceException" /\ last.rid = {CeArn})

C22_Witness ==
    /\ last.op = "construct" /\ last.kind = "vpc" /\ last.exc = "RetryError"
    /\ Exhausted(last.calls, "wait_subnet_available", "WaiterError")
    /\ last.calls[Len(last.calls)] = Call("wait_subnet_available", "WaiterError")

\* The query each resolver looks a resource up with, and the error codes it
\* reads as "no such resource".
LookupCall(kind) == IF kind = "vpc" THEN "describe_vpcs" ELSE IF kind = "sg" THEN "describe_security_groups" ELSE "get_role"

NotFoundCodes(kind) == IF kind = "vpc" THEN {"InvalidVpcID.NotFound"} ELSE IF kind = "sg" THEN {"InvalidGroup.NotFound", "InvalidGroupId.Malformed"} ELSE {"NoSuchEntity"}

\* C23: in a constructor, a not-found answer to the resolver's query (for
\* a role, the answer the retried query ends with) makes the resolver
\* report the resource as missing, and the constructor raises no remote
\* error for it; any other error of the query is raised by the constructor
\* as it came, the query being its last remote call.
C23_NotFoundIsMissingOtherErrorsPropagate ==
    [][IsConstruct
        => \A k \in DOMAIN last'.calls :
              LET call == last'.calls[k]
              IN (call.c = LookupCall(last'.kind) /\ call.r # "ok" /\ \A j \in DOMAIN last'.calls : (j > k => last'.calls[j].c # call.c))
                    => IF call.r \in NotFoundCodes(last'.kind)
                       THEN last'.lookup = "missing" /\ (last'.exc \in {"ClientError", "RetryError"} => last'.calls[Len(last'.calls)].c # call.c)
                       ELSE /\ last'.lookup = "error" /\ last'.exc = "ClientError"
                            /\ k = Len(last'.calls)
                            /\ remote' = remote /\ config' = config /\ inst' = inst]_vars

C23_Witness ==
    /\ last.op = "construct" /\ last.kind = "sg" /\ last.idGiven = "causes-error"
    /\ last.calls = <<Call("describe_security_groups", "InvalidGroupId.Malformed")>>
    /\ last.lookup = "missing" /\ last.exc = "ResourceDoesNotExistException"

\* C24: within a section of the registry no two resource ids are listed
\* under the same name.
C24_RegistryNamesUnique ==
    \A section \in DOMAIN config :
        \A r1, r2 \in DOMAIN config[section] : config[section][r1] = config[section][r2] => r1 = r2

\* The VPCs that had no Name tag when a Vpc object adopted them by id
\* (backfilled: the resolver tagged the VPC; kept for the properties only).
BackFilled == {v \in VpcIds : vpcs[v].st = "present" /\ vpcs[v].backfilled}

\* C25: adopting by id a VPC that has no Name tag tags it with
\* owner = cloudknot and the synthetic name, and every later
\* Vpc(name = <the synthetic name>) resolves to the id of each VPC adopted
\* this way: the object it returns is bound to that id, or the
\* ResourceExistsException it raises names it.
C25_BackFilledNameResolves ==
    [][(IsConstruct /\ last'.kind = "vpc")
        => /\ \A v \in VpcIds :
                (last'.idGiven = v /\ last'.lookup = "found" /\ vpcs[v].name = None)
                    => (vpcs'[v].name = SyntheticName /\ vpcs'[v].owner = "cloudknot" /\ v \in BackFilled')
           /\ (last'.idGiven = None /\ last'.nameGiven = SyntheticName /\ ~RemoteFault(last'))
                => \A v \in BackFilled : last'.lookup = "found" /\ (IF last'.exc = None THEN {inst'[last'.inst].id} ELSE last'.rid) = {v}]_vars

\* The last call was IamRole(name) alone and it adopted the remote role.
RoleAdoptedByName == last.op = "construct" /\ last.kind = "role" /\ last.exc = None /\ last.lookup = "found" /\ ~last.params

UnderSpecified(l) ==
    \/ l.kind = "vpc" /\ l.idGiven = None /\ l.nameGiven = None
    \/ l.kind = "sg" /\ l.idGiven = None /\ ~(l.nameGiven # None /\ l.args.vpc # 0)
    \/ l.kind = "sg" /\ l.args.vpc # 0 /\ ~(l.args.vpc \in Slots /\ inst[l.args.vpc].kind = "vpc")

\* C27: such a constructor call raises ValueError before any remote call:
\* no call is issued and the remote, the registry and the objects stay as
\* they were.
C27_UnderSpecifiedIsRejected ==
    [][(IsConstruct /\ UnderSpecified(last'))
        => (last'.exc = "ValueError" /\ last'.calls = <<>> /\ remote' = remote /\ config' = config /\ inst' = inst)]_vars

C27_Witness ==
    /\ last.op = "construct" /\ last.kind = "sg" /\ last.exc = "ValueError" /\ last.calls = <<>>
    /\ last.idGiven = None /\ last.nameGiven = "a" /\ last.args.vpc = -1

\* The last call was IamRole() for a role that does not exist, with
\* creation parameters whose service and add_instance_profile are valid
\* and whose policies are strings: its outcome rests on the policy check.
PoliciesDecide ==
    /\ last.op = "construct" /\ last.kind = "role" /\ last.lookup = "missing"
    /\ last.exc # "ResourceDoesNotExistException"
    /\ last.args.service \in allowed_services \cup {None}
    /\ last.args.policies.str
    /\ IsBool(last.args.add_instance_profile)

\* The list_policies calls among the first n calls.
Listings(calls, n) == Cardinality({k \in DOMAIN calls : k <= n /\ calls[k].c = "list_policies"})

\* C28: the policy validation of IamRole passes exactly when the requested
\* names P are a subset of the catalog C, P = C and P empty included, and
\* every page of the catalog has been listed before create_role or the
\* ValueError.
C28_ValidationIsSubsetTest ==
    PoliciesDecide
        => LET P == {last.args.policies.names[k] : k \in DOMAIN last.args.policies.names}
               C == UNION {PolicyPages[k] : k \in DOMAIN PolicyPages}
               decided == IF \E k \in DOMAIN last.calls : last.calls[k].c = "create_role"
                          THEN CHOOSE k \in DOMAIN last.calls : last.calls[k].c = "create_role"
                          ELSE Len(last.calls) + 1
           IN /\ (last.exc # "ValueError") <=> (P \subseteq C)
              /\ Listings(last.calls, decided - 1) >= Len(PolicyPages)

\* The positions of call c among the calls.
Positions(calls, c) == {k \in DOMAIN calls : calls[k].c = c}

\* C29: SecurityGroup.clobber() terminates the instances of its VPC that
\* use the group, then waits for the compute environments that reference
\* it, then deletes the group; a delete refused with DependencyViolation is
\* tried once more and no further, and when the second delete fails the
\* error is raised and the registry entry stays.
C29_SgClobberOrderAndOneRetry ==
    [][(IsClobber /\ last'.kind = "sg")
        => LET calls == last'.calls
               g == inst[last'.inst].id
               uses == ec2s.st = "running" /\ ec2s.vpc = inst[last'.inst].vpc_id /\ ec2s.sg = g
               terminates == Positions(calls, "terminate_instances")
               waits == Positions(calls, "wait_for_compute_environment")
               deletes == Positions(calls, "delete_security_group")
           IN /\ uses <=> terminates # {}
              /\ uses => ec2s'.st # "running"
              /\ (ces.st # "none" /\ ces.sg = g) <=> waits # {}
              /\ \A t \in terminates, w \in waits : t < w
              /\ \A t \in terminates \cup waits, d \in deletes : t < d
              /\ Cardinality(deletes) <= 2
              /\ \A d \in deletes :
                    IF calls[d].r = "DependencyViolation" /\ d + 1 \in deletes
                    THEN d + 1 = Len(calls)
                    ELSE d = Len(calls)
              /\ \A d \in deletes : (calls[d].r = "DependencyViolation" /\ d - 1 \notin deletes) => d + 1 \in deletes
              /\ (Cardinality(deletes) = 2 /\ calls[Len(calls)].r # "ok")
                    => (last'.exc = "ClientError" /\ config' = config /\ sgs' = sgs)
              /\ (deletes # {} /\ calls[Len(calls)].r = "ok")
                    => (last'.exc = None /\ sgs'[g].st = "deleted" /\ ~HasEntry(config', "sg", g))]_vars

C29_Witness ==
    /\ last.op = "clobber" /\ last.kind = "sg" /\ last.exc = "ClientError"
    /\ Positions(last.calls, "terminate_instances") # {}
    /\ Cardinality(Positions(last.calls, "delete_security_group")) = 2
    /\ last.calls[Len(last.calls)] = Call("delete_security_group", "DependencyViolation")
    /\ HasEntry(config, "sg", Target.id)

\* Object i is an unclobbered IamRole of the batch service and a compute
\* environment that is neither DELETING nor DELETED has its ARN as service
\* role.
BatchRoleInUse(i) ==
    /\ inst[i].kind = "role" /\ inst[i].st = "live" /\ ~inst[i].clobbered
    /\ inst[i].service = "batch.amazonaws.com"
    /\ ces.st \notin {"none", "DELETING", "DELETED"} /\ ces.role = inst[i].arn

\* C30: clobber() on such a role raises CannotDeleteResourceException
\* naming exactly those compute environments and has changed nothing: no
\* mutating call, the role, its policies and instance profile as before,
\* the registry entry in place, clobbered still false.
C30_BatchRoleInUseIsNotDeleted ==
    [][(IsClobber /\ BatchRoleInUse(last'.inst))
        => /\ last'.exc = "CannotDeleteResourceException"
           /\ last'.rid = {CeArn}
           /\ NoMutatingCall(last'.calls)
           /\ remote' = remote
           /\ config' = config
           /\ inst' = inst
           /\ ~inst'[last'.inst].clobbered]_vars

C30_Witness ==
    /\ last.op = "clobber" /\ last.kind = "role" /\ last.exc = "CannotDeleteResourceException"
    /\ BatchRoleInUse(last.inst)
    /\ ces.st = "VALID"
    /\ roles[Target.name].st = "present" /\ roles[Target.name].policies # {}
    /\ HasEntry(config, "role", Target.id)

\* Object i is an unclobbered IamRole of the batch service and the compute
\* environment has its ARN as service role.
BatchRoleReferenced(i) ==
    /\ inst[i].kind = "role" /\ inst[i].st = "live" /\ ~inst[i].clobbered
    /\ inst[i].service = "batch.amazonaws.com"
    /\ ces.st # "none" /\ ces.role = inst[i].arn

\* C31: clobber() of a batch role issues delete_role only once the compute
\* environment that referenced the role is no longer seen DELETING; when it
\* still is as the polling gives up, clobber() raises
\* CannotDeleteResourceException carrying its ARN and the role stays.
C31_NoDeleteRoleWhileDeleting ==
    [][(IsClobber /\ BatchRoleReferenced(last'.inst))
        => LET calls == last'.calls
               n == inst[last'.inst].name
               deletes == {k \in DOMAIN calls : calls[k].c = "delete_role"}
               polls == {k \in DOMAIN calls : calls[k].c = "describe_compute_environments"}
           IN /\ \A d \in deletes :
                    /\ ces'.st # "DELETING"
                    /\ polls # {} /\ \A k \in polls : k < d
                    /\ \A k \in polls : (\A m \in polls : m <= k) => calls[k].r # "DELETING"
              /\ (ces.st = "DELETING" /\ Exhausted(calls, "describe_compute_environments", "DELETING"))
                    => /\ last'.exc = "CannotDeleteResourceException"
                       /\ last'.rid = {CeArn}
                       /\ deletes = {}
                       /\ roles' = roles /\ config' = config
              /\ (ces.st = "DELETING" /\ ces'.st = "DELETING") => Exhausted(calls, "describe_compute_environments", "DELETING")]_vars

C31_Witness ==
    /\ last.op = "clobber" /\ last.kind = "role" /\ last.exc = "CannotDeleteResourceException"
    /\ BatchRoleReferenced(last.inst)
    /\ ces.st = "DELETING"
    /\ Exhausted(last.calls, "describe_compute_environments", "DELETING")
    /\ roles[Target.name].st = "present"

\* C32: when IamRole.clobber() issues delete_role, the remote role is in no
\* instance profile and has no policy attached: the role was removed from
\* every instance profile and every attached policy was detached first.
C32_DeleteRoleAfterDetaching ==
    [][(IsClobber /\ last'.kind = "role" /\ \E k \in DOMAIN last'.calls : last'.calls[k].c = "delete_role")
        => LET n == inst[last'.inst].name
           IN /\ roles'[n].policies = {}
              /\ \A p \in RoleNames : profiles'[p] # n
              /\ last'.calls[Len(last'.calls)].c = "delete_role"]_vars

\* C33: Vpc.clobber() issues delete_subnet for every subnet id of the Vpc
\* before delete_vpc, and issues no delete_vpc when a delete_subnet failed.
C33_SubnetsDeletedBeforeVpc ==
    [][(IsClobber /\ last'.kind = "vpc")
        => LET calls == last'.calls
               subnetCalls == Positions(calls, "delete_subnet")
               vpcCalls == Positions(calls, "delete_vpc")
           IN /\ \A d \in vpcCalls :
                    /\ Cardinality({k \in subnetCalls : k < d}) = Cardinality(inst[last'.inst].subnet_ids)
                    /\ \A k \in subnetCalls : k < d /\ calls[k].r = "ok"
              /\ (\E k \in subnetCalls : calls[k].r # "ok") => vpcCalls = {}
              /\ Cardinality(vpcCalls) <= 1]_vars

C33_Witness ==
    /\ last.op = "clobber" /\ last.kind = "vpc"
    /\ Cardinality(inst[last.inst].subnet_ids) >= 2
    /\ Cardinality(Positions(last.calls, "delete_subnet")) = Cardinality(inst[last.inst].subnet_ids)
    /\ Positions(last.calls, "delete_vpc") # {}

\* C34: Vpc.clobber() deletes no security group and leaves the
\* 'security-groups' registry section as it was; SecurityGroup.clobber()
\* deletes neither its VPC nor a subnet and leaves the 'vpc' section as it
\* was.
C34_ClobberLeavesTheOtherKindAlone ==
    [][/\ (IsClobber /\ last'.kind = "vpc")
            => /\ sgs' = sgs
               /\ config'["security-groups"] = config["security-groups"]
               /\ Positions(last'.calls, "delete_security_group") = {}
       /\ (IsClobber /\ last'.kind = "sg")
            => /\ vpcs' = vpcs
               /\ config'["vpc"] = config["vpc"]
               /\ Positions(last'.calls, "delete_vpc") = {}
               /\ Positions(last'.calls, "delete_subnet") = {}]_vars

C34_Witness ==
    /\ last.op = "clobber" /\ last.kind = "sg" /\ last.exc = None
    /\ Positions(last.calls, "delete_security_group") # {}
    /\ inst[last.inst].vpc_id \in VpcIds
    /\ vpcs[inst[last.inst].vpc_id].st = "present"
    /\ vpcs[inst[last.inst].vpc_id].subnets # {}
    /\ HasEntry(config, "vpc", inst[last.inst].vpc_id)

\* IamRole() with add_instance_profile=True got as far as creating the
\* instance profile: the role was missing and has been created.
ProfileStepReached ==
    /\ last.op = "construct" /\ last.kind = "role" /\ last.lookup = "missing"
    /\ last.args.add_instance_profile = "True"
    /\ Positions(last.calls, "create_instance_profile") # {}

MaxCallTime == 1

Item(k, c, delay, max, after, policy) == [k |-> k, c |-> c, delay |-> delay, max |-> max, after |-> after, policy |-> policy]

Plain(c) == Item("call", c, 0, 0, None, None)

\* tenacity.Retrying(wait=wait_exponential(max=max), stop=stop_after_delay(delay), ...)
\* around call c; after is what the caller does with RetryError.
Retry(c, delay, max, after) == Item("retry", c, delay, max, after, None)

\* "while response['IsTruncated']"
AllPages == Item("pages", "list_policies", 0, 0, None, None)

\* "while not len(policy_filter)"
FindArn(policy) == Item("find", "list_policies", 0, 0, None, policy)

\* time.sleep(secs)
Sleep(secs) == Item("sleep", None, secs, 0, None, None)

\* A statement that raises.
Raise(exc) == Item("raise", None, 0, 0, exc, None)

\* IamRole._create: "for policy in self.policies", the lookup of the
\* policy's ARN and the retried attach_role_policy.
RECURSIVE AttachEach(_)
AttachEach(policies) == IF policies = <<>> THEN <<>> ELSE <<FindArn(Head(policies)), Retry("attach_role_policy", 5, 4, "raise")>> \o AttachEach(Tail(policies))

\* IamRole.clobber: "for policy in self.policies".
RECURSIVE DetachEach(_)
DetachEach(policies) == IF policies = <<>> THEN <<>> ELSE <<FindArn(Head(policies)), Plain("detach_role_policy")>> \o DetachEach(Tail(policies))

LoopOps == {"Vpc", "Vpc.clobber", "SecurityGroup", "SecurityGroup.clobber", "IamRole", "IamRole.clobber"}

LoopPolicies == {<<>>, <<"AWSLambdaRole">>, <<"AmazonS3FullAccess">>, <<"AWSLambdaRole", "AmazonS3ReadOnlyAccess">>, <<"NotAnAWSPolicy">>}

\* The remote calls of one constructor or clobber() call, in order, for an
\* object of two subnets, one dependent compute environment and the given
\* policies.
Program(op, policies) ==
    IF op = "Vpc"
    THEN <<Plain("describe_vpcs"), Plain("create_vpc"), Plain("describe_availability_zones"), Plain("create_subnet"), Plain("create_subnet"), Retry("wait_subnet_available", 300, 60, "raise"), Plain("create_tags")>>
    ELSE IF op = "Vpc.clobber"
    THEN <<Plain("delete_subnet"), Plain("delete_subnet"), Plain("delete_vpc")>>
    ELSE IF op = "SecurityGroup"
    THEN <<Plain("describe_security_groups"), Plain("create_security_group"), Raise("AttributeError")>>
    ELSE IF op = "SecurityGroup.clobber"
    THEN <<Plain("describe_instances"), Plain("terminate_instances"), Plain("describe_compute_environments"), Plain("wait_for_compute_environment"), Plain("delete_security_group"), Sleep(30), Plain("delete_security_group")>>
    ELSE IF op = "IamRole"
    THEN <<Retry("get_role", 5, 4, "continue"), AllPages>>
         \o (IF \A k \in DOMAIN policies : policies[k] \in PagesFrom(1) THEN <<Plain("create_role")>> \o AttachEach(policies) \o <<Plain("create_instance_profile"), Plain("add_role_to_instance_profile")>> ELSE <<Raise("ValueError")>>)
    ELSE <<Plain("describe_compute_environments"), Retry("describe_compute_environments", 120, 16, "raise"), Plain("list_instance_profiles_for_role")>> \o DetachEach(policies) \o <<Plain("delete_role")>>

\* tenacity.wait_exponential(max=max): the wait after the given attempt.
wait_exponential(attempt, max) == Min({2 ^ attempt, max})

stop_after_delay_Never(elapsed, delay) == FALSE

\* tenacity.stop_after_delay(delay)
stop_after_delay(elapsed, delay) == elapsed >= delay

\* The statement is done: on to the next one, or the call returns.
Advance(r) == [r EXCEPT !.todo = Tail(@), !.pc = IF Tail(r.todo) = <<>> THEN "returned" ELSE "calling", !.ans = None, !.clock = 0, !.attempt = 1, !.page = 1]

Raised(r, exc) == [r EXCEPT !.pc = "raised", !.exc = exc, !.ans = None]

Running == run.pc \in {"calling", "answered"}

\* A constructor or clobber() is called.
StartCall ==
    /\ ~Running
    /\ \E op \in LoopOps, policies \in LoopPolicies :
        run' = [Idle EXCEPT !.pc = "calling", !.op = op, !.todo = Program(op, policies)]
    /\ UNCHANGED <<account, vpcs, sgs, ec2s, ces, roles, profiles, config, inst, failed, last>>

\* The remote call of the statement returns, after some time and with an
\* answer that is the remote's to choose; the pages of the catalog are what
\* they are.
RemoteCallReturns ==
    /\ run.pc = "calling"
    /\ Head(run.todo).k \in {"call", "retry", "pages", "find"}
    /\ LET it == Head(run.todo)
           more == IF run.page < Len(PolicyPages) THEN "truncated" ELSE "last"
       IN \E d \in 0..MaxCallTime, a \in {"ok", "again", "error"} :
            /\ a = "again" => it.k = "retry"
            /\ run' = [run EXCEPT !.pc = "answered",
                                  !.ans = IF a = "ok" /\ it.k \in {"pages", "find"} THEN more ELSE a,
                                  !.clock = IF it.k = "retry" THEN Min({@ + d, it.delay}) ELSE @]
    /\ UNCHANGED <<account, vpcs, sgs, ec2s, ces, roles, profiles, config, inst, failed, last>>

\* A call outside every loop.
HandlePlain ==
    /\ run.pc = "answered"
    /\ Head(run.todo).k = "call"
    /\ run' = IF run.ans = "ok" THEN Advance(run) ELSE Raised(run, "ClientError")
    /\ UNCHANGED <<account, vpcs, sgs, ec2s, ces, roles, profiles, config, inst, failed, last>>

\* tenacity.Retrying.call after an attempt: return the result, let another
\* exception out, or, for an answer to retry on, stop when the time is
\* spent and otherwise sleep and attempt again.  The clock stops at the
\* delay and the attempt number where the wait has reached its maximum:
\* beyond them nothing changes.
HandleRetry ==
    /\ run.pc = "answered"
    /\ Head(run.todo).k = "retry"
    /\ LET it == Head(run.todo)
       IN run' = IF run.ans = "ok"
                 THEN (IF it.c = "get_role" THEN Advance([run EXCEPT !.todo = <<it, Plain("list_attached_role_policies")>>]) ELSE Advance(run))
                 ELSE IF run.ans = "error"
                 THEN Raised(run, "ClientError")
                 ELSE IF stop_after_delay(run.clock, it.delay)
                 THEN (IF it.after = "continue" THEN Advance(run)
                       ELSE Raised(run, IF it.c = "describe_compute_environments" THEN "CannotDeleteResourceException" ELSE "RetryError"))
                 ELSE [run EXCEPT !.pc = "calling", !.ans = None,
                                  !.clock = Min({@ + wait_exponential(run.attempt, it.max), it.delay}),
                                  !.attempt = IF 2 ^ @ >= it.max THEN @ ELSE @ + 1]
    /\ UNCHANGED <<account, vpcs, sgs, ec2s, ces, roles, profiles, config, inst, failed, last>>

\* IamRole.__init__: "while response['IsTruncated']".
HandlePages ==
    /\ run.pc = "answered"
    /\ Head(run.todo).k = "pages"
    /\ run' = IF run.ans = "error" THEN Raised(run, "ClientError")
              ELSE IF run.ans = "truncated" THEN [run EXCEPT !.pc = "calling", !.ans = None, !.page = @ + 1]
              ELSE Advance(run)
    /\ UNCHANGED <<account, vpcs, sgs, ec2s, ces, roles, profiles, config, inst, failed, last>>

\* IamRole._create and IamRole.clobber: "while not len(policy_filter)",
\* which asks for the page after policy_response['Marker']; the last page
\* has no Marker.
HandleFind ==
    /\ run.pc = "answered"
    /\ Head(run.todo).k = "find"
    /\ run' = IF run.ans = "error" THEN Raised(run, "ClientError")
              ELSE IF Head(run.todo).policy \in PolicyPages[run.page] THEN Advance(run)
              ELSE IF run.ans = "truncated" THEN [run EXCEPT !.pc = "calling", !.ans = None, !.page = @ + 1]
              ELSE Raised(run, "KeyError")
    /\ UNCHANGED <<account, vpcs, sgs, ec2s, ces, roles, profiles, config, inst, failed, last>>

\* A statement without a remote call: time.sleep, or one that raises.
LocalStep ==
    /\ run.pc = "calling"
    /\ Head(run.todo).k \in {"sleep", "raise"}
    /\ run' = IF Head(run.todo).k = "sleep" THEN Advance(run) ELSE Raised(run, Head(run.todo).after)
    /\ UNCHANGED <<account, vpcs, sgs, ec2s, ces, roles, profiles, config, inst, failed, last>>

RunStep == RemoteCallReturns \/ HandlePlain \/ HandleRetry \/ HandlePages \/ HandleFind \/ LocalStep

NextLoops ==
    \/ StartCall
    \/ RemoteCallReturns
    \/ HandlePlain
    \/ HandleRetry
    \/ HandlePages
    \/ HandleFind
    \/ LocalStep

\* The program is single-threaded and every remote call returns: a call in
\* progress takes its next step.
SpecLoops == Init /\ [][NextLoops]_vars /\ WF_vars(RunStep)

\* C36: every constructor and clobber() call terminates, given that every
\* remote call returns and the catalog has finitely many pages: a call in
\* progress leads to a call that has returned or raised.
C36_EveryCallTerminates == Running ~> (run.pc \in {"returned", "raised"})

C36_Witness ==
    /\ run.op = "IamRole.clobber"
    /\ run.pc = "raised"
    /\ run.exc = "CannotDeleteResourceException"
    /\ Head(run.todo).k = "retry"
    /\ run.clock >= 120
    /\ run.attempt >= 4

GetRoleCalls == {k \in DOMAIN last.calls : last.calls[k].c = "get_role"}

\* C37: IamRole() takes the role for missing only when every get_role
\* attempt the retry's time allows answered NoSuchEntity; when an attempt
\* finds the role, the construction adopts it or raises
\* ResourceExistsException (creation parameters given), and issues no
\* create_role.
C37_MissingOnlyAfterEveryAttempt ==
    (last.op = "construct" /\ last.kind = "role")
        => /\ last.lookup = "missing"
                => /\ Cardinality(GetRoleCalls) = MaxAttempts
                   /\ \A k \in GetRoleCalls : last.calls[k].r = "NoSuchEntity"
           /\ (\E k \in GetRoleCalls : last.calls[k].r = "ok")
                => /\ last.lookup = "found"
                   /\ Positions(last.calls, "create_role") = {}
                   /\ last.exc = (IF last.params THEN "ResourceExistsException" ELSE None)
                   /\ last.exc = None => (Target.pre /\ Target.name = last.nameGiven)
                   /\ roles[last.nameGiven].st = "present"
           /\ Positions(last.calls, "create_role") # {} => last.lookup = "missing"

C37_Witness ==
    /\ last.op = "construct" /\ last.kind = "role" /\ last.lookup = "found"
    /\ \E k \in GetRoleCalls : last.calls[k].r = "NoSuchEntity"
    /\ \E k \in GetRoleCalls : last.calls[k].r = "ok"
    /\ last.exc = None
    /\ Target.pre

\* C38: no resource is deleted remotely except by clobber(), and between
\* operations every registry entry names a resource that exists remotely:
\* every VPC id of the 'vpc' section, every group id of the
\* 'security-groups' section and every role name of the 'roles' section.
C38_RegistryEntriesExist ==
    /\ \A v \in DOMAIN config["vpc"] : v \in VpcIds /\ vpcs[v].st = "present"
    /\ \A g \in DOMAIN config["security-groups"] : g \in SgIds /\ sgs[g].st = "present"
    /\ \A n \in DOMAIN config["roles"] : n \in RoleNames /\ roles[n].st = "present"

C38_Witness ==
    /\ last.op = "clobber" /\ last.kind = "vpc" /\ last.exc = None
    /\ Positions(last.calls, "delete_vpc") # {}
    /\ vpcs[Target.id].st = "deleted"
    /\ ~HasEntry(config, "vpc", Target.id)
    /\ DOMAIN config["vpc"] # {}
    /\ \A v \in DOMAIN config["vpc"] : vpcs[v].st = "present"

\* IamRole(name=n, add_instance_profile=True): the flag is the only
\* parameter beside the name.
OnlyInstanceProfileGiven ==
    /\ last.op = "construct" /\ last.kind = "role"
    /\ last.args.add_instance_profile = "True"
    /\ last.args.description = None /\ last.args.service = None /\ ~Truthy(last.args.policies)
    /\ last.lookup \in {"found", "missing"}

\* C39: IamRole(name=n, add_instance_profile=True) raises
\* ResourceDoesNotExistException and creates nothing when no role n exists,
\* and raises ResourceExistsException when role n exists.
C39_InstanceProfileFlagAlone ==
    OnlyInstanceProfileGiven
        => /\ last.lookup = "missing"
                => /\ last.exc = "ResourceDoesNotExistException"
                   /\ NoMutatingCall(last.calls)
                   /\ roles[last.nameGiven].st = "absent"
                   /\ ~HasEntry(config, "role", last.nameGiven)
           /\ last.lookup = "found"
                => /\ last.exc = "ResourceExistsException"
                   /\ last.rid = {last.nameGiven}
                   /\ NoMutatingCall(last.calls)
           /\ Target = BlankInst

C39_Witness ==
    /\ OnlyInstanceProfileGiven
    /\ last.lookup = "missing"
    /\ last.exc = "ResourceDoesNotExistException"
    /\ roles[last.nameGiven].st = "absent"
    /\ profiles[last.nameGiven] = "absent"
====
